---- MODULE Spec2Model ----
(***************************************************************************)
(* Model of the audio job orchestration of ai-voice-tuning: the job        *)
(* registry (app.locals.audioFiles), the upload, process, info and         *)
(* download controllers, PythonService.processAudio with its timer and     *)
(* child-process events, file deletion by the cleanup scheduler, the      *)
(* directory sweeps FileManager.cleanupOldFiles and                        *)
(* CleanupScheduler.cleanupDirectory over a directory with a clock, and    *)
(* the control of the scheduler (start, stop, getStatus).                  *)
(*                                                                         *)
(* Text is modelled as a sequence of tokens (each token a piece of text),  *)
(* so that concatenation is \o and trim() removes whitespace tokens.       *)
(***************************************************************************)
EXTENDS Integers, Sequences, FiniteSets, TLC

\* Bounds of the model.
MaxJobs == 2
MaxReqs == 2
MaxChunks == 3
\* 'data' events per child when several requests run concurrently.
SysChunks == 1

\* Pieces of text of one standard-error output.
MaxErrParts == 4

\* Entries of a swept directory, clock readings, sweeps, values of maxAge.
MaxFiles == 2
MaxTime == 2
MaxSweeps == 2
MaxAgeLimit == 1

\* Calls of start() and stop() on a scheduler, runs of its interval callback.
MaxCalls == 5
MaxRuns == 2
\* The calls of AudioRecorder.startRecording, and the seconds that pass.
MaxStarts == 2
MaxNow == 4
\* AudioRecorder.maxDuration in seconds: 60 unless the caller sets another.
maxDuration == 2
\* APIClient.maxRetries: 3 unless the caller sets another.
maxRetries == 2
\* Uploads made from the page, calls of apiClient.processAudio it makes.
MaxUploads == 2
MaxSends == 3

\* PythonService.timeout: parseInt(process.env.PYTHON_TIMEOUT) || 30000.
timeout == 30000

VARIABLES
  audioFiles,  \* app.locals.audioFiles: id -> job record
  disk,        \* paths of the files that exist on disk
  req,         \* per HTTP request: kind, audioId, position in the handler, response
  inv,         \* per process request: the closure of PythonService.processAudio
  lim,         \* the size of the scenario: jobs, requests, 'data' events per child
  dir,         \* a swept directory: entry name -> kind and last-modified time
  dirExists,   \* the swept directory itself exists
  clock,       \* Date.now()
  sweep,       \* per sweep: implementation, position, locals, files it removed
  sched,       \* a CleanupScheduler, the interval timers of the runtime, the calls made
  rec,         \* the browser's AudioRecorder, its MediaRecorders, timers and time
  call,        \* a request of the browser's APIClient: its attempts and its result
  page         \* the page: appState, the process button, the requests it awaits

vars ==
  <<audioFiles, disk, req, inv, lim, dir, dirExists, clock, sweep, sched, rec,
    call, page>>

\* The state of the sweeps, and the state outside the API requests.
sweepVars == <<dir, dirExists, clock, sweep>>
apiVars == <<audioFiles, disk, req, inv, lim>>
browserVars == <<rec, call, page>>
outsideApi == <<sweepVars, sched, browserVars>>
outsideSweep == <<apiVars, sched, browserVars>>
outsideSched == <<apiVars, sweepVars, browserVars>>
outsideRec == <<apiVars, sweepVars, sched, call, page>>
outsideCall == <<apiVars, sweepVars, sched, rec, page>>
outsidePage == <<apiVars, sweepVars, sched, rec, call>>

Ids == 1..MaxJobs
Reqs == 1..MaxReqs
\* The name of a property that every plain object inherits from
\* Object.prototype ('constructor', 'toString', '__proto__', ...), sent as an id.
InheritedKey == -1
\* A request names an id of Ids (in the registry or not), the name of an
\* inherited property, or sends none (0).
RequestIds == Ids \cup {0, InheritedKey}

\* A field that is undefined in JavaScript.
Absent == <<"undefined">>

Whitespace == {" ", "\n"}

\* Path multer stores an upload under: uploadDir/<timestamp>-<originalname>.
\* Paths are numbered in the order of their first use.
UploadPath(n) == <<"uploads/", ToString(n)>>

UploadPaths == {UploadPath(n) : n \in Ids}

\* What the child writes to stdout in one 'data' event.
StdoutChunks == {<<" ">>, <<"out.wav", "\n">>}
\* What the child writes to stderr in one 'data' event.
StderrChunks == {<<"ERROR", ":", "PROCESSING_FAILED", ":", "x", " ">>, <<"x", "\n">>}
\* Exit codes delivered with 'close' ("null": terminated by a signal).
ExitCodes == {"0", "1", "null"}

----------------------------------------------------------------------------
\* String.prototype.trim

RECURSIVE TrimLeft(_)
TrimLeft(s) ==
  IF s # <<>> /\ Head(s) \in Whitespace THEN TrimLeft(Tail(s)) ELSE s

RECURSIVE TrimRight(_)
TrimRight(s) ==
  IF s # <<>> /\ s[Len(s)] \in Whitespace
  THEN TrimRight(SubSeq(s, 1, Len(s) - 1))
  ELSE s

Trim(s) == TrimRight(TrimLeft(s))

----------------------------------------------------------------------------
\* PythonService.parseErrorMessage: /ERROR:([A-Z_]+):(.+)/ on token level.

\* Tokens made of the characters [A-Z_] only.
UpperTokens ==
  {"ERROR", "FILE_NOT_FOUND", "INVALID_ARGUMENTS", "PROCESSING_FAILED", "OTHER_CODE"}

\* Length of the longest run of [A-Z_] tokens of e that starts at position i.
RECURSIVE UpperRun(_, _)
UpperRun(e, i) ==
  IF i <= Len(e) /\ e[i] \in UpperTokens THEN 1 + UpperRun(e, i + 1) ELSE 0

\* The regular expression with the s flag: '.' matches a line break as well.
LineRun_dotAll(e, i) == Len(e) - i + 1

\* Length of the longest run of tokens other than a line break starting at i.
RECURSIVE LineRun(_, _)
LineRun(e, i) ==
  IF i <= Len(e) /\ e[i] # "\n" THEN 1 + LineRun(e, i + 1) ELSE 0

\* The regular expression matches with "ERROR:" at position i.
MatchesAt(e, i) ==
  /\ i + 1 <= Len(e)
  /\ e[i] = "ERROR"
  /\ e[i + 1] = ":"
  /\ LET k == UpperRun(e, i + 2)
     IN  /\ k >= 1
         /\ i + 2 + k <= Len(e)
         /\ e[i + 2 + k] = ":"
         /\ LineRun(e, i + 3 + k) >= 1

parseErrorMessage(errorOutput) ==
  LET starts == {i \in 1..Len(errorOutput) : MatchesAt(errorOutput, i)}
  IN  IF starts # {}
      THEN LET i == CHOOSE m \in starts : \A n \in starts : m <= n
               k == UpperRun(errorOutput, i + 2)
               errorType == SubSeq(errorOutput, i + 2, i + 1 + k)
               d == i + 3 + k
               errorMessage ==
                 Trim(SubSeq(errorOutput, d, d + LineRun(errorOutput, d) - 1))
           IN  IF errorType = <<"FILE_NOT_FOUND">>
               THEN <<"Audio file not found">>
               ELSE IF errorType = <<"INVALID_ARGUMENTS">>
               THEN <<"Invalid arguments provided to Python engine">>
               ELSE IF errorType = <<"PROCESSING_FAILED">>
               THEN <<"Audio processing failed: ">> \o errorMessage
               ELSE <<"Processing error: ">> \o errorMessage
      ELSE IF Trim(errorOutput) # <<>>
           THEN Trim(errorOutput)
           ELSE <<"Unknown Python processing error">>

----------------------------------------------------------------------------
\* The promise and the closure of one PythonService.processAudio call.

Pending == [state |-> "pending", value |-> Absent]

\* No call yet.
NoInv ==
  [live |-> FALSE, outputPath |-> <<>>, errorOutput |-> <<>>, timer |-> "none",
   processCompleted |-> FALSE, promise |-> Pending, settleCalls |-> 0,
   killed |-> FALSE, closed |-> "no", errored |-> FALSE, chunks |-> 0]

\* The executor up to the registration of the handlers: spawn, the closure
\* variables, setTimeout.
spawnInv ==
  [NoInv EXCEPT !.live = TRUE, !.timer = "armed"]

\* resolve(value) or reject(new Error(value)): only the first call settles.
settle(i, state, value) ==
  [i EXCEPT !.settleCalls = @ + 1,
            !.promise = IF @.state = "pending"
                        THEN [state |-> state, value |-> value]
                        ELSE @]

TimeoutMessage == <<"Processing timeout: exceeded ", ToString(timeout), "ms">>

\* The callback without reject(): the child is signalled, the promise stays pending.
timeoutHandler_noReject(i) ==
  IF ~i.processCompleted
  THEN [i EXCEPT !.timer = "fired", !.processCompleted = TRUE, !.killed = TRUE]
  ELSE [i EXCEPT !.timer = "fired"]

\* The callback without python.kill('SIGTERM').
timeoutHandler_noKill(i) ==
  IF ~i.processCompleted
  THEN settle([i EXCEPT !.timer = "fired", !.processCompleted = TRUE],
              "rejected", TimeoutMessage)
  ELSE [i EXCEPT !.timer = "fired"]

\* The setTimeout callback.
timeoutHandler(i) ==
  IF ~i.processCompleted
  THEN settle([i EXCEPT !.timer = "fired", !.processCompleted = TRUE, !.killed = TRUE],
              "rejected", TimeoutMessage)
  ELSE [i EXCEPT !.timer = "fired"]

\* The 'close' handler after its test of processCompleted.
closeBody(i, code, trimmedPath) ==
  LET j == [i EXCEPT !.closed = code, !.processCompleted = TRUE, !.timer = "cleared"]
  IN  IF code = "0"
      THEN IF trimmedPath = <<>>
           THEN settle(j, "rejected",
                       <<"Python process succeeded but returned no output path">>)
           ELSE settle(j, "resolved", trimmedPath)
      ELSE settle(j, "rejected", parseErrorMessage(i.errorOutput))

\* The handler without the test of processCompleted.
closeHandler_noGuard(i, code) == closeBody(i, code, Trim(i.outputPath))

\* The handler without outputPath.trim().
closeHandler_noTrim(i, code) ==
  IF i.processCompleted
  THEN [i EXCEPT !.closed = code]
  ELSE closeBody(i, code, i.outputPath)

\* The handler without the test of an empty path.
closeHandler_noEmptyCheck(i, code) ==
  IF i.processCompleted
  THEN [i EXCEPT !.closed = code]
  ELSE LET j == [i EXCEPT !.closed = code, !.processCompleted = TRUE,
                          !.timer = "cleared"]
       IN  IF code = "0"
           THEN settle(j, "resolved", Trim(i.outputPath))
           ELSE settle(j, "rejected", parseErrorMessage(i.errorOutput))

\* python.on('close', code).
closeHandler(i, code) ==
  IF i.processCompleted
  THEN [i EXCEPT !.closed = code]
  ELSE closeBody(i, code, Trim(i.outputPath))

\* The handler without processCompleted = true and without clearTimeout.
spawnErrorHandler_noFlag(i, message) ==
  settle([i EXCEPT !.errored = TRUE],
         "rejected", <<"Failed to start Python engine: ">> \o message)

\* python.on('error', error).
spawnErrorHandler(i, message) ==
  IF i.processCompleted
  THEN [i EXCEPT !.errored = TRUE]
  ELSE settle([i EXCEPT !.errored = TRUE, !.processCompleted = TRUE,
                        !.timer = "cleared"],
              "rejected", <<"Failed to start Python engine: ">> \o message)

----------------------------------------------------------------------------
\* Job records and responses.

\* The upload storing the job as already handed to the worker.
newJob_processing(id, filepath) ==
  [id |-> id, filepath |-> filepath, status |-> "processing",
   outputPath |-> Absent, error |-> Absent, processingTime |-> Absent,
   completedAt |-> Absent, failedAt |-> Absent]

newJob(id, filepath) ==
  [id |-> id, filepath |-> filepath, status |-> "uploaded",
   outputPath |-> Absent, error |-> Absent, processingTime |-> Absent,
   completedAt |-> Absent, failedAt |-> Absent]

\* The request without audioData.status = 'processing'.
markProcessing_skip(job) == job

\* The value of audioFiles[InheritedKey]: a function or object of the runtime,
\* none of the fields of a job defined on it.
InheritedValue ==
  [id |-> InheritedKey, filepath |-> Absent, status |-> "undefined",
   outputPath |-> Absent, error |-> Absent, processingTime |-> Absent,
   completedAt |-> Absent, failedAt |-> Absent]

\* audioFiles[audioId] is truthy: the registry is a plain object ({}).
has(id) == id \in DOMAIN audioFiles \/ id = InheritedKey

\* audioFiles[audioId] when truthy.
lookup(id) == IF id \in DOMAIN audioFiles THEN audioFiles[id] ELSE InheritedValue

markProcessing(job) == [job EXCEPT !.status = "processing"]

\* The completion without audioData.processingTime = processingTime.
markCompleted_untimed(job, outputPath) ==
  [job EXCEPT !.status = "completed", !.outputPath = outputPath,
              !.completedAt = <<"now">>]

\* The completion storing the tuned file as the job's file.
markCompleted_moved(job, outputPath) ==
  [job EXCEPT !.status = "completed", !.outputPath = outputPath,
              !.filepath = outputPath,
              !.processingTime = <<"seconds">>, !.completedAt = <<"now">>]

markCompleted(job, outputPath) ==
  [job EXCEPT !.status = "completed", !.outputPath = outputPath,
              !.processingTime = <<"seconds">>, !.completedAt = <<"now">>]

\* The catch block with a fixed text in place of processingError.message.
markFailed_fixedText(job, message) ==
  [job EXCEPT !.status = "failed", !.error = <<"Processing failed">>,
              !.failedAt = <<"now">>]

markFailed(job, message) ==
  [job EXCEPT !.status = "failed", !.error = message, !.failedAt = <<"now">>]

Resp(code, status, outputPath, error) ==
  [code |-> code, status |-> status, outputPath |-> outputPath, error |-> error]

NoReq == [kind |-> "none", id |-> 0, pc |-> "idle", res |-> Resp(0, "", Absent, Absent)]

Done(r, kind, id, res) ==
  req' = [req EXCEPT ![r] = [kind |-> kind, id |-> id, pc |-> "done", res |-> res]]

----------------------------------------------------------------------------
\* The swept directory and the locals of a sweep.

Names == 1..MaxFiles
\* path.join(directory, f, 'x'): the path of a file in subdirectory f.
Inside(f) == f + MaxFiles
\* The paths of the model: the entries of the directory and one file in each
\* of its subdirectories.
Paths == Names \cup {Inside(f) : f \in Names}
Sweeps == 1..MaxSweeps
\* Values of the maxAge parameter, in ticks of the clock.
AgeLimits == 1..MaxAgeLimit

NoEntry == [kind |-> "none", mtime |-> 0]
FileEntry(t) == [kind |-> "file", mtime |-> t]
DirEntry(t) == [kind |-> "dir", mtime |-> t]
\* A regular file fs.unlink fails on with an error other than ENOENT (EPERM,
\* EBUSY).
LockedEntry(t) == [kind |-> "locked", mtime |-> t]
\* An entry readdir lists and fs.stat fails on (EACCES, ELOOP).
BrokenEntry == [kind |-> "broken", mtime |-> 0]

\* No call yet. removed is the set of entries the call itself unlinked.
NoSweep ==
  [impl |-> "none", pc |-> "idle", maxAge |-> 0, files |-> <<>>, k |-> 0,
   now |-> 0, deletedCount |-> 0, removed |-> {}]

\* new CleanupScheduler(): timer = null (0, the handles of setInterval being
\* numbered from 1), isRunning = false. active holds the handles of the
\* interval timers that exist, handles counts the calls of setInterval,
\* immediate and periodic the calls of runCleanup made by start() and by the
\* interval callback, log lists the calls of start() and stop(), cleanups
\* holds for every call of runCleanup, in the order made, the directory whose
\* cleanupDirectory it awaits ("uploadDir", then "outputDir") or "done".
NoSched ==
  [timer |-> 0, isRunning |-> FALSE, active |-> {}, handles |-> 0,
   immediate |-> 0, periodic |-> 0, log |-> <<>>, cleanups |-> <<>>]

\* No scheduler was started.
SchedIdle == sched = NoSched

\* new AudioRecorder(): mediaRecorder = null (cur 0, the MediaRecorders made
\* being numbered from 1 in recs), stream = null (0, the streams granted
\* being numbered from 1), startTime = null, timerInterval = null (0),
\* duration = 0. ended holds the streams whose tracks were stopped, waiting
\* counts the calls of startRecording that await getUserMedia, calls the
\* calls of startRecording made, intervals holds the interval timers that
\* exist (numbered from 1, timers counting them), due those that have yet to
\* fire at the present time, timeouts the pending setTimeout callbacks (the
\* time they are due, the MediaRecorder whose startRecording armed them),
\* stops the MediaRecorders whose 'stop' event is queued, now the time in
\* seconds.
NoRec ==
  [now |-> 0, stream |-> 0, streams |-> 0, ended |-> {}, waiting |-> 0,
   calls |-> 0, cur |-> 0, recs |-> <<>>, startTime |-> 0, duration |-> 0,
   timerInterval |-> 0, timers |-> 0, intervals |-> {}, due |-> {},
   timeouts |-> {}, stops |-> {}]

\* No request of the APIClient: kind is the method called, retries the
\* parameter of the running retryRequest, outcomes the way the fetch of every
\* attempt made so far has ended, pc the position ("fetch": requestFn awaits, "delay":
\* retryRequest awaits its setTimeout, "resolved", "rejected"), error the
\* error the caller gets.
NoCall ==
  [kind |-> "none", pc |-> "idle", retries |-> 0, outcomes |-> <<>>,
   error |-> [name |-> "", message |-> <<>>]]

\* appState and the page after initializeApp: currentAudioId = null (0, the
\* ids the server answers uploads with being numbered from 1), currentMode =
\* 'upload', isProcessing = false, the process button enabled. uploading
\* counts the uploads awaited, uploaded the uploads answered, processing the
\* calls of apiClient.processAudio awaited, sent the calls made, result the
\* id in the download URL of the result shown (0: no result is shown).
NoPage ==
  [currentAudioId |-> 0, currentMode |-> "upload", isProcessing |-> FALSE,
   disabled |-> FALSE, uploading |-> 0, uploaded |-> 0, processing |-> 0,
   sent |-> 0, result |-> 0]

\* The page was loaded and nothing was done in it.
BrowserIdle == rec = NoRec /\ call = NoCall /\ page = NoPage

\* No sweep runs and the directory is empty.
SweepIdle ==
  /\ dir = [f \in Paths |-> NoEntry]
  /\ dirExists = TRUE
  /\ clock = 0
  /\ sweep = [s \in Sweeps |-> NoSweep]
  /\ SchedIdle
  /\ BrowserIdle

----------------------------------------------------------------------------
\* The server after start: an empty registry, no request.
InitWith(l) ==
  /\ audioFiles = [i \in {} |-> newJob(i, <<>>)]
  /\ disk = {}
  /\ req = [r \in Reqs |-> NoReq]
  /\ inv = [r \in Reqs |-> NoInv]
  /\ lim = l
  /\ SweepIdle

Init == InitWith([jobs |-> MaxJobs, reqs |-> MaxReqs, chunks |-> SysChunks])

\* One process request at a time on one job.
InitOne == InitWith([jobs |-> 1, reqs |-> 1, chunks |-> MaxChunks])

\* await fs.access(path): resolves when the file exists, throws otherwise.
fsAccess_always(path) == TRUE

fsAccess(path) == path \in disk

\* An id generator that can return an id already in the registry.
uuidv4_any(issued) == Ids

\* The values uuidv4() can return: a version 4 UUID (122 random bits) is taken
\* to differ from every id issued before.
uuidv4(issued) == Ids \ issued

\* POST /api/upload: multer stores the file under a path that is new or that
\* of an earlier upload (same millisecond, same original name), handleUpload
\* registers the job under a fresh uuid (ids are numbered in the order issued).
handleUpload(id, p) ==
  /\ id \in uuidv4(DOMAIN audioFiles)
  /\ id <= lim.jobs
  /\ \A i \in Ids : i < id => i \in DOMAIN audioFiles
  /\ \E n \in Ids :
       /\ p = UploadPath(n)
       /\ \A m \in 1..(n - 1) :
            \E i \in DOMAIN audioFiles : audioFiles[i].filepath = UploadPath(m)
  /\ audioFiles' = [i \in DOMAIN audioFiles \cup {id} |->
                      IF i = id THEN newJob(id, p) ELSE audioFiles[i]]
  /\ disk' = disk \cup {p}
  /\ UNCHANGED <<req, inv, lim, outsideApi>>

\* POST /api/process, up to the await of fs.access.
processAudio_start(r, id) ==
  /\ req[r].pc = "idle"
  /\ r <= lim.reqs
  /\ id <= lim.jobs
  /\ \A q \in Reqs : q < r => req[q].kind # "none"
  /\ IF id = 0
     THEN Done(r, "process", id, Resp(400, "", Absent, <<"audioId diperlukan">>))
     ELSE IF ~has(id)
     THEN Done(r, "process", id, Resp(404, "", Absent, <<"Audio tidak ditemukan">>))
     ELSE req' = [req EXCEPT ![r] = [NoReq EXCEPT !.kind = "process", !.id = id,
                                                  !.pc = "access"]]
  /\ UNCHANGED <<audioFiles, disk, inv, lim, outsideApi>>

\* The outcome of fs.access, the move to 'processing' and the call of
\* pythonService.processAudio up to its await.
processAudio_access(r) ==
  /\ req[r].kind = "process"
  /\ req[r].pc = "access"
  /\ LET id == req[r].id
     IN  IF ~fsAccess(lookup(id).filepath)
         THEN /\ Done(r, "process", id,
                      Resp(404, "", Absent, <<"File audio tidak ditemukan di server">>))
              /\ UNCHANGED <<audioFiles, inv>>
         ELSE /\ audioFiles' = [audioFiles EXCEPT ![id] = markProcessing(@)]
              /\ inv' = [inv EXCEPT ![r] = spawnInv]
              /\ req' = [req EXCEPT ![r].pc = "worker"]
  /\ UNCHANGED <<disk, lim, outsideApi>>

\* The continuation of the await of pythonService.processAudio.
processAudio_resume(r) ==
  /\ req[r].kind = "process"
  /\ req[r].pc = "worker"
  /\ inv[r].promise.state # "pending"
  /\ LET id == req[r].id
         p == inv[r].promise
     IN  IF p.state = "resolved"
         THEN /\ audioFiles' = [audioFiles EXCEPT ![id] = markCompleted(@, p.value)]
              /\ Done(r, "process", id, Resp(200, "completed", p.value, Absent))
         ELSE /\ audioFiles' = [audioFiles EXCEPT ![id] = markFailed(@, p.value)]
              /\ Done(r, "process", id,
                      Resp(500, "", Absent, <<"Gagal memproses audio: ">> \o p.value))
  /\ UNCHANGED <<disk, inv, lim, outsideApi>>

\* python.stdout.on('data'): outputPath += output.
onStdoutData(r, c) ==
  /\ inv[r].live
  /\ inv[r].closed = "no"
  /\ inv[r].chunks < lim.chunks
  /\ inv' = [inv EXCEPT ![r].outputPath = @ \o c, ![r].chunks = @ + 1]
  /\ UNCHANGED <<audioFiles, disk, req, lim, outsideApi>>

\* python.stderr.on('data'): errorOutput += error.
onStderrData(r, c) ==
  /\ inv[r].live
  /\ inv[r].closed = "no"
  /\ inv[r].chunks < lim.chunks
  /\ inv' = [inv EXCEPT ![r].errorOutput = @ \o c, ![r].chunks = @ + 1]
  /\ UNCHANGED <<audioFiles, disk, req, lim, outsideApi>>

\* processCompleted kept on the PythonService singleton in place of the closure
\* of one call: a timer that fires marks every run in flight as handled.
onTimeout_shared(r) ==
  /\ inv[r].live
  /\ inv[r].timer = "armed"
  /\ inv' = [q \in Reqs |->
               IF q = r THEN timeoutHandler(inv[q])
               ELSE IF inv[q].live THEN [inv[q] EXCEPT !.processCompleted = TRUE]
               ELSE inv[q]]
  /\ UNCHANGED <<audioFiles, disk, req, lim, outsideApi>>

\* The timer set by setTimeout fires.
onTimeout(r) ==
  /\ inv[r].live
  /\ inv[r].timer = "armed"
  /\ inv' = [inv EXCEPT ![r] = timeoutHandler(@)]
  /\ UNCHANGED <<audioFiles, disk, req, lim, outsideApi>>

\* The child's 'close' event.
onClose(r, code) ==
  /\ inv[r].live
  /\ inv[r].closed = "no"
  /\ inv' = [inv EXCEPT ![r] = closeHandler(@, code)]
  /\ UNCHANGED <<audioFiles, disk, req, lim, outsideApi>>

\* The child's 'error' event.
onError(r) ==
  /\ inv[r].live
  /\ ~inv[r].errored
  /\ inv' = [inv EXCEPT ![r] = spawnErrorHandler(@, <<"spawn python ENOENT">>)]
  /\ UNCHANGED <<audioFiles, disk, req, lim, outsideApi>>

\* A deletion that also resets the jobs stored under the path.
deleteFile_unregister(p) ==
  /\ p \in disk
  /\ disk' = disk \ {p}
  /\ audioFiles' = [i \in DOMAIN audioFiles |->
                      IF p \in {audioFiles[i].filepath, audioFiles[i].outputPath}
                      THEN newJob(i, audioFiles[i].filepath)
                      ELSE audioFiles[i]]
  /\ UNCHANGED <<req, inv, lim, outsideApi>>

\* CleanupScheduler.deleteFile: fs.unlink of a file of a managed directory.
deleteFile(p) ==
  /\ p \in disk
  /\ disk' = disk \ {p}
  /\ UNCHANGED <<audioFiles, req, inv, lim, outsideApi>>

Next ==
  \/ \E id \in Ids, p \in UploadPaths : handleUpload(id, p)
  \/ \E r \in Reqs, id \in RequestIds : processAudio_start(r, id)
  \/ \E r \in Reqs : processAudio_access(r)
  \/ \E r \in Reqs : processAudio_resume(r)
  \/ \E r \in Reqs, c \in StdoutChunks : onStdoutData(r, c)
  \/ \E r \in Reqs, c \in StderrChunks : onStderrData(r, c)
  \/ \E r \in Reqs : onTimeout(r)
  \/ \E r \in Reqs, code \in ExitCodes : onClose(r, code)
  \/ \E r \in Reqs : onError(r)
  \/ \E p \in UploadPaths : deleteFile(p)

Spec == Init /\ [][Next]_vars

SpecOne == InitOne /\ [][Next]_vars

\* Timers fire, fs.access calls back and the continuation of a settled promise
\* runs; the child itself is under no obligation to write, fail or exit.
Fairness ==
  \A r \in Reqs :
    /\ WF_vars(onTimeout(r))
    /\ WF_vars(processAudio_access(r))
    /\ WF_vars(processAudio_resume(r))

FairOne == InitOne /\ [][Next]_vars /\ Fairness

----------------------------------------------------------------------------
\* The info and download controllers, and the files the worker writes.

\* The paths the worker prints on stdout.
OutputPaths == {<<"out.wav">>}

\* A request may start: slots are used in order, ids within the scenario.
MayStart(r, id) ==
  /\ req[r].pc = "idle"
  /\ r <= lim.reqs
  /\ id <= lim.jobs
  /\ \A q \in Reqs : q < r => req[q].kind # "none"

\* GET /api/info/:id. The metadata holds the status, and the error of a
\* 'failed' job; it never holds outputPath.
getAudioInfo(r, id) ==
  /\ MayStart(r, id)
  /\ IF id = 0
     THEN Done(r, "info", id, Resp(400, "", Absent, <<"audioId diperlukan">>))
     ELSE IF ~has(id)
     THEN Done(r, "info", id, Resp(404, "", Absent, <<"Audio tidak ditemukan">>))
     ELSE Done(r, "info", id,
               Resp(200, lookup(id).status, Absent,
                    IF lookup(id).status = "failed" THEN lookup(id).error ELSE Absent))
  /\ UNCHANGED <<audioFiles, disk, inv, lim, outsideApi>>

\* No status test: every job is taken as processed.
notProcessed_off(audioData) == FALSE

\* audioData.status !== 'completed' || !audioData.outputPath.
notProcessed(audioData) ==
  audioData.status # "completed" \/ audioData.outputPath = Absent

\* GET /api/download/:id, up to the await of fs.access.
downloadAudio_start(r, id) ==
  /\ MayStart(r, id)
  /\ IF id = 0
     THEN Done(r, "download", id, Resp(400, "", Absent, <<"audioId diperlukan">>))
     ELSE IF ~has(id)
     THEN Done(r, "download", id, Resp(404, "", Absent, <<"Audio tidak ditemukan">>))
     ELSE IF notProcessed(lookup(id))
     THEN Done(r, "download", id,
               Resp(400, "", Absent, <<"Audio belum selesai diproses">>))
     ELSE req' = [req EXCEPT ![r] = [NoReq EXCEPT !.kind = "download", !.id = id,
                                                  !.pc = "access"]]
  /\ UNCHANGED <<audioFiles, disk, inv, lim, outsideApi>>

\* The outcome of fs.access(audioData.outputPath).
downloadAudio_access(r) ==
  /\ req[r].kind = "download"
  /\ req[r].pc = "access"
  /\ IF ~fsAccess(audioFiles[req[r].id].outputPath)
     THEN Done(r, "download", req[r].id,
               Resp(404, "", Absent, <<"File hasil tuning tidak ditemukan">>))
     ELSE req' = [req EXCEPT ![r].pc = "stat"]
  /\ UNCHANGED <<audioFiles, disk, inv, lim, outsideApi>>

\* The outcome of fs.stat(audioData.outputPath): ENOENT goes through next(error)
\* to errorHandler, otherwise the headers are set and the file stream created.
downloadAudio_stat(r) ==
  /\ req[r].kind = "download"
  /\ req[r].pc = "stat"
  /\ IF audioFiles[req[r].id].outputPath \notin disk
     THEN Done(r, "download", req[r].id,
               Resp(404, "", Absent, <<"File tidak ditemukan">>))
     ELSE req' = [req EXCEPT ![r].pc = "stream"]
  /\ UNCHANGED <<audioFiles, disk, inv, lim, outsideApi>>

\* The read stream opens the file and is piped to the response, or emits
\* 'error' before any header is sent.
downloadAudio_stream(r) ==
  /\ req[r].kind = "download"
  /\ req[r].pc = "stream"
  /\ IF audioFiles[req[r].id].outputPath \notin disk
     THEN Done(r, "download", req[r].id,
               Resp(500, "", Absent, <<"Gagal mengunduh file">>))
     ELSE Done(r, "download", req[r].id,
               Resp(200, "", audioFiles[req[r].id].outputPath, Absent))
  /\ UNCHANGED <<audioFiles, disk, inv, lim, outsideApi>>

\* The running child writes the tuned file.
workerWritesOutput(r, p) ==
  /\ inv[r].live
  /\ inv[r].closed = "no"
  /\ p \notin disk
  /\ disk' = disk \cup {p}
  /\ UNCHANGED <<audioFiles, req, inv, lim, outsideApi>>

NextApi ==
  \/ Next
  \/ \E r \in Reqs, id \in RequestIds : getAudioInfo(r, id)
  \/ \E r \in Reqs, id \in RequestIds : downloadAudio_start(r, id)
  \/ \E r \in Reqs : downloadAudio_access(r)
  \/ \E r \in Reqs : downloadAudio_stat(r)
  \/ \E r \in Reqs : downloadAudio_stream(r)
  \/ \E r \in Reqs, p \in OutputPaths : workerWritesOutput(r, p)
  \/ \E p \in OutputPaths : deleteFile(p)

\* Process, info and download requests on one job.
InitApi == InitWith([jobs |-> 1, reqs |-> MaxReqs, chunks |-> SysChunks])

SpecApi == InitApi /\ [][NextApi]_vars

----------------------------------------------------------------------------
\* The exit handling over the texts a child can have written.

\* Pieces a standard-error text is made of: the start of a structured error with
\* an upper-case code or with another code, detail text, blanks, line breaks.
ErrParts ==
  {<<"ERROR", ":", c, ":">> :
     c \in {"FILE_NOT_FOUND", "INVALID_ARGUMENTS", "PROCESSING_FAILED", "OTHER_CODE", "x"}}
  \cup {<<"x">>, <<" ">>, <<"\n">>}

RECURSIVE TextsOf(_)
TextsOf(n) ==
  IF n = 0 THEN {<<>>}
  ELSE LET T == TextsOf(n - 1) IN T \cup {t \o p : t \in T, p \in ErrParts}

\* errorOutput at the time of 'close'.
StderrTexts == TextsOf(MaxErrParts)

\* outputPath at the time of 'close'.
StdoutTexts == {<<>>, <<"out.wav", "\n">>}

\* A process request waits for its worker; the child has written its output
\* and has not exited yet.
InitParse ==
  /\ audioFiles = [i \in {1} |-> markProcessing(newJob(1, UploadPath(1)))]
  /\ disk = {UploadPath(1)}
  /\ req = [r \in Reqs |->
              IF r = 1 THEN [NoReq EXCEPT !.kind = "process", !.id = 1, !.pc = "worker"]
              ELSE NoReq]
  /\ \E e \in StderrTexts, o \in StdoutTexts :
       inv = [r \in Reqs |->
                IF r = 1
                THEN [spawnInv EXCEPT !.errorOutput = e, !.outputPath = o,
                                      !.chunks = (IF e = <<>> THEN 0 ELSE 1)
                                                 + (IF o = <<>> THEN 0 ELSE 1)]
                ELSE NoInv]
  /\ lim = [jobs |-> 1, reqs |-> 1, chunks |-> 2]
  /\ SweepIdle

NextParse ==
  \/ \E r \in Reqs, code \in ExitCodes : onClose(r, code)
  \/ \E r \in Reqs : processAudio_resume(r)

SpecParse == InitParse /\ [][NextParse]_vars

----------------------------------------------------------------------------
\* The sweeps: FileManager.cleanupOldFiles and CleanupScheduler.cleanupDirectory.

Impls == {"FileManager", "CleanupScheduler"}

\* The orders fs.readdir can list the entries S in.
Orders(S) ==
  {l \in [1..Cardinality(S) -> S] :
     \A i, j \in 1..Cardinality(S) : i # j => l[i] # l[j]}

\* fs.unlink without effect.
unlink_noop(d, f) == d

\* fs.unlink(filepath) on a regular file.
unlink(d, f) == [d EXCEPT ![f] = NoEntry]

\* await fs.stat(filepath) throws: the entry is gone or cannot be examined.
statThrows(e) == e.kind \in {"none", "broken"}

\* stats.isFile().
isFile(e) == e.kind \in {"file", "locked"}

\* await fs.mkdir(directory, {recursive: true}) without effect.
mkdir_noop(exists) == exists

\* await fs.mkdir(directory, {recursive: true}): the directory exists after.
mkdir(exists) == TRUE

\* fs.readdir listing the files of the subdirectories as well.
readdir_recursive(d) == {p \in Paths : d[p].kind # "none"}

\* The names fs.readdir(directory) returns: the entries of the directory
\* itself.
readdir(d) == {f \in Names : d[f].kind # "none"}

\* FileManager.deleteFile: true, false for ENOENT, any other error is rethrown.
fmDeleteFile(e) ==
  IF e.kind = "file" THEN "true" ELSE IF e.kind = "none" THEN "false" ELSE "throw"

\* CleanupScheduler.deleteFile: true, false for every error.
csDeleteFile(e) == IF e.kind = "file" THEN "true" ELSE "false"

\* isFileOld taking a file of exactly maxAge for old.
isFileOld_inclusive(e, t, m) == ~statThrows(e) /\ t - e.mtime >= m

\* CleanupScheduler.isFileOld: the age at the time of the call, false when
\* fs.stat throws.
isFileOld(e, t, m) == ~statThrows(e) /\ t - e.mtime > m

\* deletedCount after the deletion of one entry was attempted:
\* cleanupOldFiles awaits deleteFile and increments, cleanupDirectory
\* increments if deleteFile returned true.
countAfter(w, e) ==
  IF w.impl = "FileManager"
  THEN IF fmDeleteFile(e) = "throw" THEN w.deletedCount ELSE w.deletedCount + 1
  ELSE IF csDeleteFile(e) = "true" THEN w.deletedCount + 1 ELSE w.deletedCount

\* The loop goes on to the next listed entry, or the call returns deletedCount.
advance(w) ==
  [w EXCEPT !.k = @ + 1,
            !.pc = IF w.k + 1 > Len(w.files) THEN "done" ELSE "stat"]

\* An error inside the loop body that ends the call: cleanupOldFiles throws,
\* cleanupDirectory returns 0.
skip_abort(w) ==
  [w EXCEPT !.pc = IF w.impl = "FileManager" THEN "threw" ELSE "done",
            !.deletedCount = 0]

\* catch (error) inside the loop: the error is logged and the loop goes on.
skip(w) == advance(w)

\* The entry a sweep is at.
current(w) == w.files[w.k]

\* A call of cleanupOldFiles(directory, m) or cleanupDirectory(directory) with
\* this.maxAge = m; calls are numbered in the order they are made.
sweep_start(s, impl, m) ==
  /\ sweep[s].pc = "idle"
  /\ \A q \in Sweeps : q < s => sweep[q].pc # "idle"
  /\ sweep' = [sweep EXCEPT ![s] = [NoSweep EXCEPT !.impl = impl, !.pc = "mkdir",
                                                   !.maxAge = m]]
  /\ UNCHANGED <<dir, dirExists, clock, outsideSweep>>

\* The same call made when the sweep before it has returned, with its
\* implementation and maxAge: a first run and the run that follows it.
sweep_startAfter(s, impl, m) ==
  /\ s <= 2
  /\ \A q \in Sweeps :
       q < s => (sweep[q].pc = "done" /\ sweep[q].impl = impl /\ sweep[q].maxAge = m)
  /\ sweep_start(s, impl, m)

\* await fs.mkdir(directory, {recursive: true}).
sweep_mkdir(s) ==
  /\ sweep[s].pc = "mkdir"
  /\ dirExists' = mkdir(dirExists)
  /\ sweep' = [sweep EXCEPT ![s].pc = "readdir"]
  /\ UNCHANGED <<dir, clock, outsideSweep>>

\* await fs.readdir(directory), then now = Date.now() (a local of
\* cleanupOldFiles; cleanupDirectory has no such local) and deletedCount = 0.
\* readdir of a directory that does not exist throws into the outer catch:
\* cleanupOldFiles rethrows, cleanupDirectory returns 0.
sweep_readdir(s, l) ==
  /\ sweep[s].pc = "readdir"
  /\ l \in Orders(readdir(dir))
  /\ sweep' = [sweep EXCEPT ![s] =
        IF ~dirExists
        THEN [@ EXCEPT !.pc = IF @.impl = "FileManager" THEN "threw" ELSE "done"]
        ELSE [@ EXCEPT !.files = l, !.now = clock, !.k = 1,
                       !.pc = IF l = <<>> THEN "done" ELSE "stat"]]
  /\ UNCHANGED <<dir, dirExists, clock, outsideSweep>>

\* await fs.stat(filepath): a missing entry throws and is skipped, an entry
\* that is no regular file is skipped; cleanupOldFiles compares the age with
\* maxAge, cleanupDirectory goes on to isFileOld.
sweep_stat(s) ==
  /\ sweep[s].pc = "stat"
  /\ LET w == sweep[s]
         e == dir[current(w)]
     IN  sweep' = [sweep EXCEPT ![s] =
           IF statThrows(e) THEN skip(w)
           ELSE IF ~isFile(e) THEN advance(w)
           ELSE IF w.impl = "CleanupScheduler" THEN [w EXCEPT !.pc = "age"]
           ELSE IF w.now - e.mtime > w.maxAge THEN [w EXCEPT !.pc = "unlink"]
           ELSE advance(w)]
  /\ UNCHANGED <<dir, dirExists, clock, outsideSweep>>

\* const isOld = await this.isFileOld(filepath).
sweep_isFileOld(s) ==
  /\ sweep[s].pc = "age"
  /\ LET w == sweep[s]
     IN  sweep' = [sweep EXCEPT ![s] =
           IF isFileOld(dir[current(w)], clock, w.maxAge)
           THEN [w EXCEPT !.pc = "unlink"]
           ELSE advance(w)]
  /\ UNCHANGED <<dir, dirExists, clock, outsideSweep>>

\* await deleteFile(filepath) and the update of deletedCount; an error
\* deleteFile rethrows is caught inside the loop.
sweep_unlink(s) ==
  /\ sweep[s].pc = "unlink"
  /\ LET w == sweep[s]
         f == current(w)
         e == dir[f]
     IN  /\ dir' = IF e.kind = "file" THEN unlink(dir, f) ELSE dir
         /\ sweep' = [sweep EXCEPT ![s] =
               IF w.impl = "FileManager" /\ fmDeleteFile(e) = "throw"
               THEN skip(w)
               ELSE advance([w EXCEPT !.deletedCount = countAfter(w, e),
                                      !.removed = IF dir'[f] # e THEN @ \cup {f} ELSE @])]
  /\ UNCHANGED <<dirExists, clock, outsideSweep>>

\* Time passes.
tick ==
  /\ clock < MaxTime
  /\ clock' = clock + 1
  /\ UNCHANGED <<dir, dirExists, sweep, outsideSweep>>

\* An upload or a worker stores a file in the directory.
createFile(f) ==
  /\ dirExists
  /\ dir[f].kind = "none"
  /\ dir' = [dir EXCEPT ![f] = FileEntry(clock)]
  /\ UNCHANGED <<dirExists, clock, sweep, outsideSweep>>

\* Something creates a subdirectory.
createDir(f) ==
  /\ dirExists
  /\ dir[f].kind = "none"
  /\ dir' = [dir EXCEPT ![f] = DirEntry(clock)]
  /\ UNCHANGED <<dirExists, clock, sweep, outsideSweep>>

\* A file is removed by someone else than the sweeps of the model.
removeFile(f) ==
  /\ dir[f].kind = "file"
  /\ dir' = [dir EXCEPT ![f] = NoEntry]
  /\ UNCHANGED <<dirExists, clock, sweep, outsideSweep>>

\* No API traffic.
ApiIdle ==
  /\ audioFiles = [i \in {} |-> newJob(i, <<>>)]
  /\ disk = {}
  /\ req = [r \in Reqs |-> NoReq]
  /\ inv = [r \in Reqs |-> NoInv]
  /\ lim = [jobs |-> 0, reqs |-> 0, chunks |-> 0]

\* Nothing stored yet, the directory may not exist; sweeps may overlap.
InitSweep ==
  /\ ApiIdle
  /\ dir = [f \in Paths |-> NoEntry]
  /\ dirExists \in BOOLEAN
  /\ clock = 0
  /\ sweep = [s \in Sweeps |-> NoSweep]
  /\ SchedIdle
  /\ BrowserIdle

NextSweep ==
  \/ \E s \in Sweeps, impl \in Impls, m \in AgeLimits : sweep_start(s, impl, m)
  \/ \E s \in Sweeps : sweep_mkdir(s)
  \/ \E s \in Sweeps, l \in Orders(readdir(dir)) : sweep_readdir(s, l)
  \/ \E s \in Sweeps : sweep_stat(s)
  \/ \E s \in Sweeps : sweep_isFileOld(s)
  \/ \E s \in Sweeps : sweep_unlink(s)
  \/ tick
  \/ \E f \in Names : createFile(f)
  \/ \E f \in Names : createDir(f)
  \/ \E f \in Names : removeFile(f)

SpecSweep == InitSweep /\ [][NextSweep]_vars

\* The entries a directory can hold at time t.
EntriesAt(t) ==
  {NoEntry} \cup {FileEntry(u) : u \in 0..t} \cup {DirEntry(u) : u \in 0..t}

\* A directory with any content; sweeps run one after the other, no entry is
\* created.
InitTwice ==
  /\ ApiIdle
  /\ clock \in 0..MaxTime
  /\ \E d \in [Names -> EntriesAt(clock)] :
       dir = [p \in Paths |-> IF p \in Names THEN d[p] ELSE NoEntry]
  /\ dirExists = TRUE
  /\ sweep = [s \in Sweeps |-> NoSweep]
  /\ SchedIdle
  /\ BrowserIdle

NextTwice ==
  \/ \E s \in Sweeps, impl \in Impls, m \in AgeLimits : sweep_startAfter(s, impl, m)
  \/ \E s \in Sweeps : sweep_mkdir(s)
  \/ \E s \in Sweeps, l \in Orders(readdir(dir)) : sweep_readdir(s, l)
  \/ \E s \in Sweeps : sweep_stat(s)
  \/ \E s \in Sweeps : sweep_isFileOld(s)
  \/ \E s \in Sweeps : sweep_unlink(s)
  \/ tick
  \/ \E f \in Names : removeFile(f)

SpecTwice == InitTwice /\ [][NextTwice]_vars

\* The entries of a directory at time t, those fs.stat or fs.unlink fail on
\* included.
FaultyEntriesAt(t) ==
  {NoEntry, BrokenEntry, DirEntry(0)}
    \cup {FileEntry(u) : u \in 0..t} \cup {LockedEntry(u) : u \in 0..t}

\* A directory with any content, a subdirectory holding a file or nothing;
\* one sweep runs while time passes and files are removed, no entry is
\* created.
InitFaulty ==
  /\ ApiIdle
  /\ clock \in 0..MaxTime
  /\ \E d \in [Names -> FaultyEntriesAt(clock)],
        n \in [Names -> {NoEntry} \cup {FileEntry(u) : u \in 0..clock}] :
       dir = [p \in Paths |->
                IF p \in Names THEN d[p]
                ELSE IF d[p - MaxFiles].kind = "dir" THEN n[p - MaxFiles]
                ELSE NoEntry]
  /\ dirExists = TRUE
  /\ sweep = [s \in Sweeps |-> NoSweep]
  /\ SchedIdle
  /\ BrowserIdle

NextFaulty ==
  \/ \E impl \in Impls, m \in AgeLimits : sweep_start(1, impl, m)
  \/ \E s \in Sweeps : sweep_mkdir(s)
  \/ \E s \in Sweeps, l \in Orders(readdir(dir)) : sweep_readdir(s, l)
  \/ \E s \in Sweeps : sweep_stat(s)
  \/ \E s \in Sweeps : sweep_isFileOld(s)
  \/ \E s \in Sweeps : sweep_unlink(s)
  \/ tick
  \/ \E f \in Names : removeFile(f)

SpecFaulty == InitFaulty /\ [][NextFaulty]_vars

\* The same directories, one sweep of either implementation, time passes and
\* nothing else touches the directory.
NextAgree ==
  \/ \E impl \in Impls, m \in AgeLimits : sweep_start(1, impl, m)
  \/ \E s \in Sweeps : sweep_mkdir(s)
  \/ \E s \in Sweeps, l \in Orders(readdir(dir)) : sweep_readdir(s, l)
  \/ \E s \in Sweeps : sweep_stat(s)
  \/ \E s \in Sweeps : sweep_isFileOld(s)
  \/ \E s \in Sweeps : sweep_unlink(s)
  \/ tick

SpecAgree == InitFaulty /\ [][NextAgree]_vars

\* The scheduler: CleanupScheduler.start, stop, getStatus and its timer.

\* start() without the test of isRunning.
alreadyRunning_off(s) == FALSE

\* if (this.isRunning) in start().
alreadyRunning(s) == s.isRunning

\* getStatus().
getStatus(s) == s.isRunning

\* clearInterval without effect.
clearInterval_noop(active, t) == active

\* clearInterval(this.timer): the timer exists no more and never fires.
clearInterval(active, t) == active \ {t}

\* runCleanup() is called: it runs up to the await of
\* cleanupDirectory(this.uploadDir).
runCleanup(cleanups) == Append(cleanups, "uploadDir")

\* start(): nothing when running; otherwise runCleanup() is called, setInterval
\* creates a timer whose handle is kept in this.timer, isRunning = true.
start ==
  /\ Len(sched.log) < MaxCalls
  /\ sched' =
       IF alreadyRunning(sched)
       THEN [sched EXCEPT !.log = Append(@, "start")]
       ELSE [sched EXCEPT !.immediate = @ + 1,
                          !.cleanups = runCleanup(@),
                          !.handles = @ + 1,
                          !.active = @ \cup {sched.handles + 1},
                          !.timer = sched.handles + 1,
                          !.isRunning = TRUE,
                          !.log = Append(@, "start")]
  /\ UNCHANGED outsideSched

\* stop(): nothing when not running; otherwise clearInterval(this.timer) if
\* there is one, timer = null, isRunning = false.
stop ==
  /\ Len(sched.log) < MaxCalls
  /\ sched' =
       IF ~sched.isRunning
       THEN [sched EXCEPT !.log = Append(@, "stop")]
       ELSE [sched EXCEPT !.active = IF sched.timer # 0
                                       THEN clearInterval(@, sched.timer) ELSE @,
                          !.timer = 0,
                          !.isRunning = FALSE,
                          !.log = Append(@, "stop")]
  /\ UNCHANGED outsideSched

\* An interval timer that exists fires: its callback awaits runCleanup().
onInterval(h) ==
  /\ h \in sched.active
  /\ sched.periodic < MaxRuns
  /\ sched' = [sched EXCEPT !.periodic = @ + 1, !.cleanups = runCleanup(@)]
  /\ UNCHANGED outsideSched

\* A call of runCleanup goes on: cleanupDirectory(uploadDir) has returned and
\* cleanupDirectory(outputDir) is called, or that has returned and the
\* result is returned.
runCleanup_resume(n) ==
  /\ n \in DOMAIN sched.cleanups
  /\ sched.cleanups[n] # "done"
  /\ sched' = [sched EXCEPT !.cleanups[n] =
                  IF @ = "uploadDir" THEN "outputDir" ELSE "done"]
  /\ UNCHANGED outsideSched

InitSched == ApiIdle /\ SweepIdle

NextSched ==
  \/ start
  \/ stop
  \/ \E h \in 1..MaxCalls : onInterval(h)
  \/ \E n \in 1..(MaxCalls + MaxRuns) : runCleanup_resume(n)

SpecSched == InitSched /\ [][NextSched]_vars

\* A fresh deployment: the directory does not exist and nothing is stored
\* while the sweeps run.
InitFresh ==
  /\ ApiIdle
  /\ dir = [p \in Paths |-> NoEntry]
  /\ dirExists = FALSE
  /\ clock = 0
  /\ sweep = [s \in Sweeps |-> NoSweep]
  /\ SchedIdle
  /\ BrowserIdle

NextFresh ==
  \/ \E s \in Sweeps, impl \in Impls, m \in AgeLimits : sweep_start(s, impl, m)
  \/ \E s \in Sweeps : sweep_mkdir(s)
  \/ \E s \in Sweeps, l \in Orders(readdir(dir)) : sweep_readdir(s, l)
  \/ tick

SpecFresh == InitFresh /\ [][NextFresh]_vars

\* The browser's AudioRecorder: startRecording, stopRecording, cleanup, the
\* timer of the display and the automatic stop.

\* stopTimer(): clearInterval(this.timerInterval) if there is one, and null.
stopTimer(r) ==
  IF r.timerInterval # 0
  THEN [r EXCEPT !.intervals = @ \ {r.timerInterval},
                 !.due = @ \ {r.timerInterval},
                 !.timerInterval = 0]
  ELSE r

\* isRecording(): this.mediaRecorder && this.mediaRecorder.state === 'recording'.
isRecording(r) == r.cur # 0 /\ r.recs[r.cur].state = "recording"

\* stopRecording(): when the present MediaRecorder records, mediaRecorder.stop()
\* makes it inactive and queues its 'stop' event, stopTimer(), and the tracks
\* of this.stream are stopped. by names the caller, at the time r.now.
stopRecording(r, by) ==
  IF isRecording(r)
  THEN stopTimer([r EXCEPT !.recs[r.cur] = [@ EXCEPT !.state = "inactive",
                                                     !.stopped = r.now,
                                                     !.by = by],
                           !.stops = @ \cup {r.cur},
                           !.ended = IF r.stream # 0
                                     THEN @ \cup {r.stream} ELSE @])
  ELSE r

\* startRecording() from the reset of audioChunks on: duration = 0,
\* startTime = Date.now(), a new MediaRecorder on this.stream becomes
\* this.mediaRecorder and is started, startTimer() stores a new interval
\* timer in this.timerInterval without clearing the one it held, and
\* setTimeout arms the automatic stop maxDuration seconds from now.
beginRecording(r) ==
  [r EXCEPT !.duration = 0,
            !.startTime = r.now,
            !.recs = Append(@, [state |-> "recording", stream |-> r.stream,
                                started |-> r.now, stopped |-> 0,
                                by |-> "nobody", armed |-> 0]),
            !.cur = Len(r.recs) + 1,
            !.timers = @ + 1,
            !.intervals = @ \cup {r.timers + 1},
            !.timerInterval = r.timers + 1,
            !.timeouts = @ \cup {[at |-> r.now + maxDuration,
                                  of |-> Len(r.recs) + 1]}]

\* startRecording() is called: without a stream it awaits
\* requestMicrophoneAccess(), with one it runs to its end.
startRecording ==
  /\ rec.calls < MaxStarts
  /\ rec' = IF rec.stream = 0
            THEN [rec EXCEPT !.calls = @ + 1, !.waiting = @ + 1]
            ELSE beginRecording([rec EXCEPT !.calls = @ + 1])
  /\ UNCHANGED outsideRec

\* getUserMedia resolves: requestMicrophoneAccess stores the new stream in
\* this.stream and the call of startRecording that awaited it goes on.
micGranted ==
  /\ rec.waiting > 0
  /\ rec' = beginRecording([rec EXCEPT !.waiting = @ - 1,
                                       !.streams = @ + 1,
                                       !.stream = rec.streams + 1])
  /\ UNCHANGED outsideRec

\* getUserMedia rejects: startRecording throws and has recorded nothing.
micDenied ==
  /\ rec.waiting > 0
  /\ rec' = [rec EXCEPT !.waiting = @ - 1]
  /\ UNCHANGED outsideRec

\* stopRecording() is called by the page.
stopRecording_call ==
  /\ isRecording(rec)
  /\ rec' = stopRecording(rec, "caller")
  /\ UNCHANGED outsideRec

\* cleanup(): stopRecording(), stream = null, mediaRecorder = null.
cleanup ==
  /\ rec.cur # 0 \/ rec.stream # 0
  /\ rec' = [stopRecording(rec, "caller") EXCEPT !.stream = 0, !.cur = 0]
  /\ UNCHANGED outsideRec

\* An interval timer of startTimer() fires: duration is the whole seconds
\* since this.startTime; at maxDuration or more, stopRecording().
onTimer(h) ==
  /\ h \in rec.due
  /\ LET r == [rec EXCEPT !.due = @ \ {h}, !.duration = rec.now - rec.startTime]
     IN rec' = IF r.duration >= maxDuration
               THEN stopRecording(r, "interval") ELSE r
  /\ UNCHANGED outsideRec

\* The callback of the setTimeout of startRecording runs when it is due: if
\* this.mediaRecorder records, stopRecording(). armed keeps the MediaRecorder
\* whose startRecording had armed the timeout.
onAutoStop(t) ==
  /\ t \in rec.timeouts
  /\ t.at <= rec.now
  /\ LET r == [rec EXCEPT !.timeouts = @ \ {t}]
     IN rec' = IF isRecording(r)
               THEN [stopRecording(r, "timeout") EXCEPT !.recs[r.cur].armed = t.of]
               ELSE r
  /\ UNCHANGED outsideRec

\* The 'stop' event of a MediaRecorder is delivered: its onstop calls
\* this.stopTimer() (and hands the recording to the page).
onstop(i) ==
  /\ i \in rec.stops
  /\ rec' = stopTimer([rec EXCEPT !.stops = @ \ {i}])
  /\ UNCHANGED outsideRec

\* The MediaRecorders the browser ends: all tracks of their stream have ended.
Starved(r) ==
  {i \in DOMAIN r.recs : r.recs[i].state = "recording" /\ r.recs[i].stream \in r.ended}

\* The browser ends a MediaRecorder whose tracks have all ended.
tracksEnded(i) ==
  /\ i \in Starved(rec)
  /\ rec' = [rec EXCEPT !.recs[i] = [@ EXCEPT !.state = "inactive",
                                              !.stopped = rec.now,
                                              !.by = "browser"],
                        !.stops = @ \cup {i}]
  /\ UNCHANGED outsideRec

\* A second passes, once every timer that was due has fired and every queued
\* event was delivered; the interval timers that exist are due again.
second ==
  /\ rec.now < MaxNow
  /\ rec.due = {}
  /\ rec.stops = {}
  /\ Starved(rec) = {}
  /\ \A t \in rec.timeouts : t.at > rec.now
  /\ rec' = [rec EXCEPT !.now = @ + 1, !.due = rec.intervals]
  /\ UNCHANGED outsideRec

InitRecorder == ApiIdle /\ SweepIdle

NextRecorder ==
  \/ startRecording
  \/ micGranted
  \/ micDenied
  \/ stopRecording_call
  \/ cleanup
  \/ \E h \in 1..MaxStarts : onTimer(h)
  \/ \E t \in [at : 0..(MaxNow + maxDuration), of : 1..MaxStarts] : onAutoStop(t)
  \/ \E i \in 1..MaxStarts : onstop(i)
  \/ \E i \in 1..MaxStarts : tracksEnded(i)
  \/ second

SpecRecorder == InitRecorder /\ [][NextRecorder]_vars

\* The browser's APIClient: uploadAudio, processAudio, downloadResult and
\* retryRequest.

Methods == {"uploadAudio", "processAudio", "downloadResult"}

\* error.message.includes(phrase), a message being a sequence of phrases.
includes(message, phrase) == \E i \in DOMAIN message : message[i] = phrase

\* The texts a server puts in the error field of an error response: none or
\* a fixed text, and for a process request 'Gagal memproses audio: ' with the
\* message of the failure, which carries what the worker wrote to stderr.
ServerErrors(kind) ==
  { <<>>, <<"Audio tidak ditemukan">> }
    \cup IF kind = "processAudio"
         THEN { <<"Gagal memproses audio:", "x">>,
                <<"Gagal memproses audio:", "Failed to fetch">>,
                <<"Gagal memproses audio:", "Network error">> }
         ELSE {}

\* The ways one fetch ends: a response that is ok, an error response with a
\* JSON body, a response whose body is no JSON, fetch rejecting with
\* TypeError 'Failed to fetch', the abort by the timeout.
Fetches(kind) ==
  [type : {"ok", "unparsable", "failed", "aborted"}, error : {<<>>}]
    \cup [type : {"http"}, error : ServerErrors(kind)]

\* data.error || `... failed with status ${response.status}`.
messageOf(error) == IF error = <<>> THEN <<"failed with status">> ELSE error

\* The error thrown in the try block of the request function; downloadResult
\* reads a body only from an error response that says it is JSON.
thrown(kind, f) ==
  IF f.type = "failed" THEN [name |-> "TypeError", message |-> <<"Failed to fetch">>]
  ELSE IF f.type = "aborted" THEN [name |-> "AbortError", message |-> <<"aborted">>]
  ELSE IF f.type = "http" THEN [name |-> "Error", message |-> messageOf(f.error)]
  ELSE IF kind = "downloadResult"
       THEN [name |-> "Error", message |-> messageOf(<<>>)]
       ELSE [name |-> "SyntaxError", message |-> <<"Unexpected token">>]

\* The catch of the request function: an AbortError becomes the timeout
\* error, a message with 'Failed to fetch' the network error.
rethrown(e) ==
  IF e.name = "AbortError"
  THEN [name |-> "Error", message |-> <<"timeout">>]
  ELSE IF includes(e.message, "Failed to fetch")
       THEN [name |-> "Error",
             message |-> <<"Network error", "gagal terhubung ke server">>]
       ELSE e

\* The request function succeeds: the response is ok, and for upload and
\* process its body is JSON.
succeeds(kind, f) == f.type = "ok"

\* isNetworkError in the catch of retryRequest.
isNetworkError(e) ==
  \/ includes(e.message, "Network error")
  \/ includes(e.message, "Failed to fetch")
  \/ e.name = "AbortError"

\* uploadAudio, processAudio or downloadResult is called:
\* retryRequest(requestFn, this.maxRetries) calls the request function.
request(kind) ==
  /\ call.pc \in {"idle", "resolved", "rejected"}
  /\ call' = [NoCall EXCEPT !.kind = kind, !.pc = "fetch", !.retries = maxRetries]
  /\ UNCHANGED outsideCall

\* The fetch of the attempt ends with f: the request function returns or
\* throws and retryRequest returns, waits to retry, or throws.
settled(f) ==
  /\ call.pc = "fetch"
  /\ f \in Fetches(call.kind)
  /\ LET e == rethrown(thrown(call.kind, f))
         c == [call EXCEPT !.outcomes = Append(@, f)]
     IN call' = IF succeeds(call.kind, f)
                THEN [c EXCEPT !.pc = "resolved"]
                ELSE IF isNetworkError(e) /\ call.retries > 0
                     THEN [c EXCEPT !.pc = "delay"]
                     ELSE [c EXCEPT !.pc = "rejected", !.error = e]
  /\ UNCHANGED outsideCall

\* The delay is over: retryRequest(requestFn, retries - 1).
retryRequest ==
  /\ call.pc = "delay"
  /\ call' = [call EXCEPT !.pc = "fetch", !.retries = @ - 1]
  /\ UNCHANGED outsideCall

InitClient == ApiIdle /\ SweepIdle

NextClient ==
  \/ \E kind \in Methods : request(kind)
  \/ \E f \in Fetches("processAudio") : settled(f)
  \/ retryRequest

SpecClient == InitClient /\ [][NextClient]_vars

\* The page: main.js and the process button of the UIController.

\* showLoading() leaving the process button enabled.
showLoading_enabled(p) == p

\* uiController.showLoading(): processButton.disabled = true.
showLoading(p) == [p EXCEPT !.disabled = TRUE]

\* uiController.hideLoading(): processButton.disabled = false.
hideLoading(p) == [p EXCEPT !.disabled = FALSE]

\* resetAppState(): currentAudioId = null, isProcessing = false (and the
\* recorder is cleaned up).
resetAppState(p) == [p EXCEPT !.currentAudioId = 0, !.isProcessing = FALSE]

\* A mode tab is clicked: currentMode = mode, toggleMode(mode) hides the
\* result, resetAppState() with audioRecorder.cleanup().
switchMode(mode) ==
  /\ page' = resetAppState([page EXCEPT !.currentMode = mode, !.result = 0])
  /\ rec' = [stopRecording(rec, "caller") EXCEPT !.stream = 0, !.cur = 0]
  /\ UNCHANGED <<apiVars, sweepVars, sched, call>>

\* handleFileUpload (or the upload of a finished recording) with a valid
\* file, up to the await of apiClient.uploadAudio.
handleFileUpload ==
  /\ page.uploaded + page.uploading < MaxUploads
  /\ page' = [page EXCEPT !.uploading = @ + 1]
  /\ UNCHANGED outsidePage

\* The upload is answered: on success currentAudioId = response.data.id and
\* the process section is shown; on failure an error is shown.
uploadAnswered(success) ==
  /\ page.uploading > 0
  /\ page' = IF success
             THEN [page EXCEPT !.uploading = @ - 1, !.uploaded = @ + 1,
                               !.currentAudioId = page.uploaded + 1]
             ELSE [page EXCEPT !.uploading = @ - 1]
  /\ UNCHANGED outsidePage

\* The process button is clicked, which a disabled button does not let
\* happen: handleProcessAudio returns without an audio and when
\* isProcessing; otherwise isProcessing = true, showLoading(), and
\* apiClient.processAudio(currentAudioId) is called and awaited.
handleProcessAudio ==
  /\ ~page.disabled
  /\ page.sent < MaxSends
  /\ page' = IF page.currentAudioId = 0 \/ page.isProcessing
             THEN page
             ELSE showLoading([page EXCEPT !.isProcessing = TRUE,
                                           !.processing = @ + 1,
                                           !.sent = @ + 1])
  /\ UNCHANGED outsidePage

\* apiClient.processAudio returns or throws: hideLoading() in both cases; on
\* success the result is shown with the download URL of the currentAudioId of
\* that moment, otherwise the error; finally isProcessing = false.
processAnswered(success) ==
  /\ page.processing > 0
  /\ page' = [hideLoading(page) EXCEPT
                 !.isProcessing = FALSE,
                 !.processing = @ - 1,
                 !.result = IF success THEN page.currentAudioId ELSE @]
  /\ UNCHANGED outsidePage

InitPage == ApiIdle /\ SweepIdle

NextPage ==
  \/ \E mode \in {"upload", "record"} : switchMode(mode)
  \/ handleFileUpload
  \/ \E success \in BOOLEAN : uploadAnswered(success)
  \/ handleProcessAudio
  \/ \E success \in BOOLEAN : processAnswered(success)

SpecPage == InitPage /\ [][NextPage]_vars

----------------------------------------------------------------------------
\* Properties.

Terminal == {"completed", "failed"}

Rejected(message) == [state |-> "rejected", value |-> message]

Resolved(path) == [state |-> "resolved", value |-> path]

\* The message contains the piece of text tok.
Mentions(message, tok) == \E k \in 1..Len(message) : message[k] = tok

\* The status of job id, "none" when the registry has no such job.
StatusOf(id) == IF id \in DOMAIN audioFiles THEN audioFiles[id].status ELSE "none"

\* Request r leaves the await of pythonService.processAudio in this step.
Resumes(r) == req[r].pc = "worker" /\ req'[r].pc = "done"

\* C1: in every reachable state every job has neither outputPath nor error while
\* 'uploaded' or 'processing', outputPath and no error when 'completed', error
\* and no outputPath when 'failed'.
C1_FieldsMatchStatus ==
  \A id \in DOMAIN audioFiles :
    LET j == audioFiles[id]
    IN  /\ j.status \in {"uploaded", "processing"} =>
             (j.outputPath = Absent /\ j.error = Absent)
        /\ j.status = "completed" => (j.outputPath # Absent /\ j.error = Absent)
        /\ j.status = "failed" => (j.error # Absent /\ j.outputPath = Absent)

\* C2: of two process requests in flight for the same job at most one has moved
\* the job to 'processing' and invoked the worker (and so at most one is left to
\* apply a terminal transition).
C2_OneWorkerPerJob ==
  \A r1, r2 \in Reqs :
    (r1 # r2 /\ req[r1].pc = "worker" /\ req[r2].pc = "worker") =>
      req[r1].id # req[r2].id

Rank(status) ==
  CASE status = "uploaded" -> 0
    [] status = "processing" -> 1
    [] OTHER -> 2

\* C3: no step moves a job's status backward in uploaded < processing < terminal.
C3_StatusMonotonic ==
  [][\A id \in DOMAIN audioFiles :
       Rank(audioFiles'[id].status) >= Rank(audioFiles[id].status)]_vars

\* C4: once a job is 'completed' or 'failed' no step changes its status.
C4_TerminalAbsorbing ==
  [][\A id \in DOMAIN audioFiles :
       audioFiles[id].status \in Terminal =>
         audioFiles'[id].status = audioFiles[id].status]_vars

\* C5: every call of PythonService.processAudio settles exactly once: resolve or
\* reject is called at most once in every order of the timer, 'close' and
\* 'error', a settled call is left alone by every later event, a fired timeout
\* stays the outcome, and every call does settle.
C5_SettlesOnce ==
  /\ [](\A r \in Reqs :
          LET i == inv[r]
          IN  /\ i.settleCalls <= 1
              /\ (i.settleCalls = 1) <=> (i.promise.state # "pending")
              /\ i.processCompleted <=> (i.settleCalls = 1)
              /\ i.timer = "fired" => i.promise = Rejected(TimeoutMessage)
              /\ i.killed => i.timer = "fired")
  /\ [][\A r \in Reqs :
          inv[r].settleCalls = 1 =>
            /\ inv'[r].promise = inv[r].promise
            /\ inv'[r].settleCalls = 1
            /\ inv'[r].killed = inv[r].killed]_vars
  /\ \A r \in Reqs : inv[r].live ~> (inv[r].settleCalls = 1)

\* The timeout fired first, then both 'close' and 'error' arrived.
C5_Witness ==
  \E r \in Reqs :
    /\ inv[r].timer = "fired"
    /\ inv[r].closed # "no"
    /\ inv[r].errored
    /\ inv[r].settleCalls = 1

\* C6: a job moved to 'processing' by a process request is eventually moved to
\* 'completed' or 'failed' by that request, also when the child never exits and
\* never writes.
C6_ProcessingEnds ==
  /\ \A r \in Reqs :
       (req[r].pc = "worker") ~>
         (req[r].pc = "done" /\ StatusOf(req[r].id) \in Terminal)
  /\ \A id \in Ids : (StatusOf(id) = "processing") ~> (StatusOf(id) \in Terminal)

\* The job failed although the child neither wrote, failed nor exited.
C6_Witness ==
  \E r \in Reqs :
    /\ req[r].pc = "done"
    /\ inv[r].timer = "fired"
    /\ inv[r].closed = "no"
    /\ ~inv[r].errored
    /\ inv[r].chunks = 0
    /\ audioFiles[req[r].id].status = "failed"

\* C7: when the timer fires on a run whose 'close' has not been handled, the
\* child is sent SIGTERM and the call rejects with the timeout message; the
\* request then moves the job to 'failed' with that message, which names the
\* duration, and nothing that arrives later makes the call succeed.
C7_TimeoutFails ==
  /\ [][\A r \in Reqs :
          (inv[r].timer = "armed" /\ inv'[r].timer = "fired") =>
            (inv'[r].killed /\ inv'[r].promise = Rejected(TimeoutMessage))]_vars
  /\ [][\A r \in Reqs :
          (Resumes(r) /\ inv[r].timer = "fired") =>
            LET j == audioFiles'[req[r].id]
            IN  /\ j.status = "failed"
                /\ j.error = TimeoutMessage
                /\ Mentions(j.error, ToString(timeout))
                /\ req'[r].res.code = 500
                /\ Mentions(req'[r].res.error, ToString(timeout))]_vars
  /\ [](\A r \in Reqs :
          inv[r].timer = "fired" =>
            /\ inv[r].promise.state = "rejected"
            /\ req[r].pc = "done" => req[r].res.status # "completed")

\* After the timeout the child exited with code 0 and a path on stdout; the job
\* is 'failed' with the timeout message.
C7_Witness ==
  \E r \in Reqs :
    /\ inv[r].timer = "fired"
    /\ inv[r].killed
    /\ inv[r].closed = "0"
    /\ Trim(inv[r].outputPath) # <<>>
    /\ req[r].pc = "done"
    /\ audioFiles[req[r].id].status = "failed"
    /\ audioFiles[req[r].id].error = TimeoutMessage

\* C8: a process request that finds the source file of an 'uploaded' job missing
\* answers 404, spawns nothing and leaves the registry as it is.
C8_InputMissing ==
  [][\A r \in Reqs :
       (/\ req[r].kind = "process"
        /\ req[r].pc = "access"
        /\ req'[r] # req[r]
        /\ req[r].id \in DOMAIN audioFiles
        /\ audioFiles[req[r].id].status = "uploaded"
        /\ audioFiles[req[r].id].filepath \notin disk)
       => /\ req'[r].pc = "done"
          /\ req'[r].res.code = 404
          /\ audioFiles' = audioFiles
          /\ inv' = inv]_vars

\* The request ended with 404 for the missing file and the job is 'uploaded'.
C8_Witness ==
  \E r \in Reqs :
    /\ req[r].pc = "done"
    /\ req[r].res = Resp(404, "", Absent, <<"File audio tidak ditemukan di server">>)
    /\ ~inv[r].live
    /\ req[r].id \in DOMAIN audioFiles
    /\ audioFiles[req[r].id] =
         newJob(req[r].id, audioFiles[req[r].id].filepath)
    /\ audioFiles[req[r].id].filepath \notin disk

\* C9 as stated: whenever the child exited with code 0 and its trimmed stdout is
\* not empty, the finished request answered 'completed' with that path.
C9_Original ==
  \A r \in Reqs :
    (req[r].pc = "done" /\ inv[r].closed = "0" /\ Trim(inv[r].outputPath) # <<>>) =>
      /\ req[r].res.status = "completed"
      /\ req[r].res.outputPath = Trim(inv[r].outputPath)

\* C9 amended: a 'close' with code 0 that is handled before the timeout fired
\* and before any 'error', with stdout not empty after trimming, resolves the
\* call with the trimmed text, and the request then moves the job to
\* 'completed' with that outputPath and answers 'completed' with it.
C9_CompletedOnSuccess ==
  /\ [][\A r \in Reqs :
          (/\ inv[r].closed = "no"
           /\ inv'[r].closed = "0"
           /\ ~inv[r].processCompleted
           /\ Trim(inv[r].outputPath) # <<>>)
          => inv'[r].promise = Resolved(Trim(inv[r].outputPath))]_vars
  /\ [][\A r \in Reqs :
          (Resumes(r) /\ inv[r].promise.state = "resolved") =>
            LET j == audioFiles'[req[r].id]
                path == Trim(inv[r].outputPath)
            IN  /\ inv[r].closed = "0"
                /\ j.status = "completed"
                /\ j.outputPath = path
                /\ req'[r].res = Resp(200, "completed", path, Absent)]_vars

\* The job completed with a path that trimming shortened.
C9_Witness ==
  \E r \in Reqs :
    /\ req[r].pc = "done"
    /\ req[r].res.status = "completed"
    /\ inv[r].closed = "0"
    /\ inv[r].outputPath # Trim(inv[r].outputPath)
    /\ audioFiles[req[r].id].status = "completed"
    /\ audioFiles[req[r].id].outputPath = Trim(inv[r].outputPath)

\* C10: a run that exits with code 0 and empty or whitespace-only stdout never
\* resolves; its request answers with an error and moves the job to 'failed'.
C10_EmptyOutputFails ==
  /\ [](\A r \in Reqs :
          (inv[r].closed = "0" /\ Trim(inv[r].outputPath) = <<>>) =>
            /\ inv[r].promise.state = "rejected"
            /\ req[r].pc = "done" =>
                 (req[r].res.code = 500 /\ req[r].res.status # "completed"))
  /\ [][\A r \in Reqs :
          (Resumes(r) /\ inv[r].closed = "0" /\ Trim(inv[r].outputPath) = <<>>) =>
            LET j == audioFiles'[req[r].id]
            IN  j.status = "failed" /\ j.error # Absent]_vars

\* The child printed only whitespace and exited with 0; the job is 'failed'.
C10_Witness ==
  \E r \in Reqs :
    /\ inv[r].closed = "0"
    /\ inv[r].outputPath = <<" ">>
    /\ req[r].pc = "done"
    /\ audioFiles[req[r].id].status = "failed"
    /\ audioFiles[req[r].id].error =
         <<"Python process succeeded but returned no output path">>

\* C11: a rejection of the worker invocation (timeout, spawn failure, empty
\* output, non-zero exit) is caught by the request that awaits it: the job
\* becomes 'failed' with the invocation's message as its error and the response
\* is the error response carrying that message. The worker is invoked for the
\* accepted requests and only for them, once: an invocation that has moved on
\* is never set up again, and a request that has answered does nothing more.
C11_FailureRecorded ==
  /\ [][\A r \in Reqs :
          (Resumes(r) /\ inv[r].promise.state = "rejected") =>
            LET m == inv[r].promise.value
                j == audioFiles'[req[r].id]
            IN  /\ j.status = "failed"
                /\ j.error = m
                /\ req'[r].res = Resp(500, "", Absent, <<"Gagal memproses audio: ">> \o m)
                /\ inv'[r] = inv[r]]_vars
  /\ [](\A r \in Reqs :
          inv[r].live <=>
            /\ req[r].kind = "process"
            /\ \/ req[r].pc = "worker"
               \/ req[r].pc = "done" /\ req[r].res.code \in {200, 500})
  /\ [][\A r \in Reqs :
          /\ (inv[r].live /\ inv[r].timer # "armed") => inv'[r].timer # "armed"
          /\ req[r].pc = "done" => req'[r] = req[r]]_vars

\* A non-zero exit with a structured error has failed the job and the request.
C11_Witness ==
  \E r \in Reqs :
    /\ req[r].pc = "done"
    /\ inv[r].closed = "1"
    /\ audioFiles[req[r].id].status = "failed"
    /\ audioFiles[req[r].id].error = <<"Audio processing failed: ", "x">>
    /\ req[r].res.error = <<"Gagal memproses audio: ", "Audio processing failed: ", "x">>

\* The text of a spawn failure.
IsSpawnFailure(message) ==
  message # <<>> /\ Head(message) = "Failed to start Python engine: "

\* C13: a job never moves from 'uploaded' straight to a terminal state: a
\* terminal transition is applied by a request that has moved this job to
\* 'processing' before (it is past that step and waits for the worker).
C13_ProcessingFirst ==
  /\ [][\A id \in DOMAIN audioFiles :
          /\ audioFiles[id].status = "uploaded" =>
                audioFiles'[id].status \in {"uploaded", "processing"}
          /\ (audioFiles'[id] # audioFiles[id] /\ audioFiles'[id].status \in Terminal) =>
                \E r \in Reqs : Resumes(r) /\ req[r].id = id]_vars
  /\ [](\A r \in Reqs : req[r].pc = "worker" => StatusOf(req[r].id) # "uploaded")
  /\ [][\A r \in Reqs :
          (req[r].pc # "worker" /\ req'[r].pc = "worker") =>
            (StatusOf(req[r].id) = "uploaded" => audioFiles'[req[r].id].status = "processing")]_vars

\* A job has reached a terminal state.
C13_Witness ==
  \E id \in DOMAIN audioFiles : audioFiles[id].status \in Terminal

Alone(r) == \A q \in Reqs : q # r => req[q].id # req[r].id

\* C12: a step of a process request or of its worker invocation leaves the
\* record of every other job, every other request and every other invocation as
\* they were; and a job processed by one request only ends as that request's own
\* invocation ended: 'completed' with its path and no error, or 'failed' with
\* its message and no path.
C12_JobsIndependent ==
  /\ [][\A r \in Reqs :
          (req'[r] # req[r] \/ inv'[r] # inv[r]) =>
            /\ \A id \in DOMAIN audioFiles :
                 id # req'[r].id => audioFiles'[id] = audioFiles[id]
            /\ \A q \in Reqs : q # r => (req'[q] = req[q] /\ inv'[q] = inv[q])]_vars
  /\ [](\A r \in Reqs :
          (inv[r].live /\ req[r].pc = "done" /\ Alone(r)) =>
            LET j == audioFiles[req[r].id]
                p == inv[r].promise
            IN  IF p.state = "resolved"
                THEN j.status = "completed" /\ j.outputPath = p.value /\ j.error = Absent
                ELSE j.status = "failed" /\ j.error = p.value /\ j.outputPath = Absent)

\* Two jobs were processed at the same time: one run timed out while the other
\* was in flight and delivered a path afterwards.
C12_Witness ==
  \E r, q \in Reqs :
    /\ req[r].id # req[q].id
    /\ req[r].pc = "done" /\ req[q].pc = "done"
    /\ inv[r].timer = "fired" /\ inv[q].timer = "cleared"
    /\ audioFiles[req[r].id].status = "failed"
    /\ audioFiles[req[q].id].status = "completed"

\* ERROR:<CODE>:<detail> stands at position i of e, its code k tokens long.
PatternAt(e, i, k) ==
  /\ k >= 1
  /\ i + 3 + k <= Len(e)
  /\ e[i] = "ERROR"
  /\ e[i + 1] = ":"
  /\ \A j \in (i + 2)..(i + 1 + k) : e[j] \in UpperTokens
  /\ e[i + 2 + k] = ":"
  /\ e[i + 3 + k] # "\n"

\* The rest of the line of e that starts at position d, without the blanks
\* around it.
DetailAt(e, d) ==
  LET ends == {n \in d..Len(e) : \A j \in d..n : e[j] # "\n"}
      last == CHOOSE n \in ends : \A m \in ends : m <= n
  IN  Trim(SubSeq(e, d, last))

\* The failure message the mapping of structured errors gives for the text e,
\* where isEmpty tells whether e counts as empty.
MessageFor(e, isEmpty) ==
  LET at == {a \in (1..Len(e)) \X (1..Len(e)) : PatternAt(e, a[1], a[2])}
  IN  IF at # {}
      THEN LET f == CHOOSE a \in at : \A b \in at : a[1] <= b[1]
               code == SubSeq(e, f[1] + 2, f[1] + 1 + f[2])
               detail == DetailAt(e, f[1] + 3 + f[2])
           IN  CASE code = <<"FILE_NOT_FOUND">> -> <<"Audio file not found">>
                 [] code = <<"INVALID_ARGUMENTS">> ->
                      <<"Invalid arguments provided to Python engine">>
                 [] code = <<"PROCESSING_FAILED">> ->
                      <<"Audio processing failed: ">> \o detail
                 [] OTHER -> <<"Processing error: ">> \o detail
      ELSE IF isEmpty THEN <<"Unknown Python processing error">>
      ELSE Trim(e)

\* The 'close' handler settles invocation r for a non-zero exit in this step.
FailsOnExit(r) ==
  /\ inv[r].promise = Pending
  /\ inv[r].closed = "no"
  /\ inv'[r].closed \in {"1", "null"}

\* C15 as stated: on a non-zero exit the message follows from standard error
\* alone by the mapping of structured errors, is the trimmed text when there is
\* no structured error, and the generic text when standard error is empty.
C15_Original ==
  [][\A r \in Reqs :
       FailsOnExit(r) =>
         inv'[r].promise =
           Rejected(MessageFor(inv[r].errorOutput, inv[r].errorOutput = <<>>))]_vars

\* C15 amended: the same, with the generic text whenever standard error holds
\* no structured error and is empty once trimmed (empty, or blanks and line
\* breaks only).
C15_MessageFromStderr ==
  [][\A r \in Reqs :
       FailsOnExit(r) =>
         inv'[r].promise =
           Rejected(MessageFor(inv[r].errorOutput, Trim(inv[r].errorOutput) = <<>>))]_vars

\* A child killed by a signal had written a path to stdout and, after a line of
\* other text, a structured error: the request failed with the mapped message.
C15_Witness ==
  \E r \in Reqs :
    /\ inv[r].closed = "null"
    /\ inv[r].outputPath # <<>>
    /\ inv[r].errorOutput = <<"x", "\n", "ERROR", ":", "PROCESSING_FAILED", ":", "x">>
    /\ req[r].pc = "done"
    /\ audioFiles[req[r].id].error = <<"Audio processing failed: ", "x">>

\* C16: a process, info or download request that names an id absent from the
\* registry is answered 404, has no worker invocation, and its steps leave the
\* registry as it was.
C16_AbsentIdNotFound ==
  /\ [](\A r \in Reqs :
          (req[r].pc = "done" /\ req[r].id # 0 /\ req[r].id \notin DOMAIN audioFiles) =>
            (req[r].res.code = 404 /\ ~inv[r].live))
  /\ [][\A r \in Reqs :
          (req'[r] # req[r] /\ req'[r].id \notin DOMAIN audioFiles) =>
            (audioFiles' = audioFiles /\ inv' = inv)]_vars

\* No process request has named job id.
NeverProcessed(id) == \A q \in Reqs : ~(req[q].kind = "process" /\ req[q].id = id)

\* C17: a job that was uploaded and that no process request has named is
\* 'uploaded' with neither outputPath nor error, and an info request for it is
\* answered 200 with status 'uploaded', no outputPath and no error.
C17_UploadThenInfo ==
  /\ [](\A id \in DOMAIN audioFiles :
          NeverProcessed(id) =>
            /\ audioFiles[id].status = "uploaded"
            /\ audioFiles[id].outputPath = Absent
            /\ audioFiles[id].error = Absent)
  /\ [][\A r \in Reqs :
          (req[r].pc = "idle" /\ req'[r].kind = "info"
             /\ req'[r].id \in DOMAIN audioFiles /\ NeverProcessed(req'[r].id)) =>
            req'[r].res = Resp(200, "uploaded", Absent, Absent)]_vars

\* An info request on a job that was uploaded and not yet processed has been
\* answered.
C17_Witness ==
  \E r \in Reqs :
    /\ req[r].kind = "info"
    /\ req[r].pc = "done"
    /\ req[r].id \in DOMAIN audioFiles
    /\ NeverProcessed(req[r].id)
    /\ req[r].res.code = 200
    /\ req[r].res.status = "uploaded"

\* Sweep s finds the entry it is at to be a regular file and decides in this
\* step whether to delete it.
Decides(s) ==
  /\ sweep'[s] # sweep[s]
  /\ \/ sweep[s].impl = "FileManager" /\ sweep[s].pc = "stat"
     \/ sweep[s].impl = "CleanupScheduler" /\ sweep[s].pc = "age"
  /\ dir[current(sweep[s])].kind = "file"

\* The age of the entry sweep s is at, now being the clock reading the
\* sweep compares with.
AgeSeen(s) ==
  (IF sweep[s].impl = "FileManager" THEN sweep[s].now ELSE clock)
    - dir[current(sweep[s])].mtime

\* C18: a sweep goes on to delete a regular file it examines exactly if the
\* file's age is strictly greater than maxAge, an entry that is no regular
\* file is never deleted, a file the sweep set out to delete is gone after the
\* attempt, and the sweep returns the number of files it deleted.
C18_SweepDeletesOld ==
  /\ [][\A s \in Sweeps :
          /\ Decides(s) => (sweep'[s].pc = "unlink" <=> AgeSeen(s) > sweep[s].maxAge)
          /\ (sweep[s].pc = "stat" /\ sweep'[s] # sweep[s]
                /\ dir[current(sweep[s])].kind # "file") => sweep'[s].pc # "unlink"
          /\ (sweep[s].pc = "unlink" /\ sweep'[s] # sweep[s]) =>
                dir'[current(sweep[s])].kind # "file"]_vars
  /\ [](\A s \in Sweeps :
          sweep[s].pc = "done" => sweep[s].deletedCount = Cardinality(sweep[s].removed))

C20_CountsOwnRemovals ==
  /\ [](\A s \in Sweeps : sweep[s].deletedCount = Cardinality(sweep[s].removed))
  /\ [][\A s \in Sweeps :
          (sweep[s].pc = "unlink" /\ sweep'[s] # sweep[s]
             /\ dir[current(sweep[s])].kind = "none") =>
            /\ dir' = dir
            /\ sweep'[s].deletedCount = sweep[s].deletedCount
            /\ sweep'[s].pc \in {"stat", "done"}]_vars

\* An examination of the entry a sweep is at fails in this step: fs.stat
\* throws, or fs.unlink does with an error other than ENOENT.
FailsOnEntry(s) ==
  /\ sweep'[s] # sweep[s]
  /\ \/ sweep[s].pc = "stat" /\ statThrows(dir[current(sweep[s])])
     \/ sweep[s].pc = "unlink" /\ dir[current(sweep[s])].kind \in {"locked", "dir"}

\* The entries a sweep listed.
readdirListed(s) == {sweep[s].files[i] : i \in 1..Len(sweep[s].files)}

\* The entries a sweep listed and has gone through.
Examined(s) == {sweep[s].files[i] : i \in 1..(sweep[s].k - 1)}

\* C21: no sweep throws; a step of a sweep on an entry, failing or not, stays
\* with the entry or goes on to the next listed one and ends the sweep only
\* after the last one, a failing step changing neither the directory nor the
\* count; a regular file the sweep finds older than maxAge is deleted whatever
\* failed before; a sweep that returned has gone through every listed entry.
C21_FileErrorsSkipped ==
  /\ [](\A s \in Sweeps :
          /\ sweep[s].pc # "threw"
          /\ sweep[s].pc = "done" => Examined(s) = readdirListed(s))
  /\ [][\A s \in Sweeps :
          /\ (sweep[s].pc \in {"stat", "age", "unlink"} /\ sweep'[s] # sweep[s]) =>
                /\ sweep'[s].files = sweep[s].files
                /\ \/ sweep'[s].k = sweep[s].k /\ sweep'[s].pc \in {"age", "unlink"}
                   \/ /\ sweep'[s].k = sweep[s].k + 1
                      /\ sweep'[s].pc =
                           IF sweep[s].k = Len(sweep[s].files) THEN "done" ELSE "stat"
          /\ FailsOnEntry(s) =>
                /\ dir' = dir
                /\ sweep'[s].deletedCount = sweep[s].deletedCount
                /\ sweep'[s].removed = sweep[s].removed
          /\ (Decides(s) /\ AgeSeen(s) > sweep[s].maxAge) => sweep'[s].pc = "unlink"
          /\ (sweep[s].pc = "unlink" /\ sweep'[s] # sweep[s]
                /\ dir[current(sweep[s])].kind = "file") =>
                dir'[current(sweep[s])] = NoEntry]_vars

\* A sweep returned: it listed an entry its examination failed on, old enough
\* for the deletion to be tried if it is a file, and deleted a file listed
\* after it.
C21_Witness ==
  \E s \in Sweeps :
    /\ sweep[s].pc = "done"
    /\ \E i, j \in 1..Len(sweep[s].files) :
         /\ i < j
         /\ \/ dir[sweep[s].files[i]] = BrokenEntry
            \/ /\ dir[sweep[s].files[i]].kind = "locked"
               /\ sweep[s].now - dir[sweep[s].files[i]].mtime > sweep[s].maxAge
         /\ sweep[s].files[j] \in sweep[s].removed

\* C22: a sweep lists only entries of the directory itself, never a path below
\* a subdirectory; finding a subdirectory it goes on to the next entry without
\* an age test or a deletion; no step removes or changes a subdirectory or a
\* file inside one.
C22_SubdirectoriesSkipped ==
  /\ [](\A s \in Sweeps : readdirListed(s) \subseteq Names)
  /\ [][/\ \A s \in Sweeps :
            (sweep[s].pc = "stat" /\ sweep'[s] # sweep[s]
               /\ dir[current(sweep[s])].kind = "dir") =>
              /\ sweep'[s].pc \in {"stat", "done"}
              /\ sweep'[s].k = sweep[s].k + 1
              /\ sweep'[s].deletedCount = sweep[s].deletedCount
        /\ \A f \in Names :
             /\ dir[f].kind = "dir" => dir'[f] = dir[f]
             /\ dir'[Inside(f)] = dir[Inside(f)]]_vars

\* A sweep returned after it listed a subdirectory older than maxAge that
\* holds a file older than maxAge, both still there, and deleted a file.
C22_Witness ==
  \E s \in Sweeps, f \in Names :
    /\ sweep[s].pc = "done"
    /\ f \in readdirListed(s)
    /\ dir[f].kind = "dir"
    /\ sweep[s].now - dir[f].mtime > sweep[s].maxAge
    /\ dir[Inside(f)].kind = "file"
    /\ sweep[s].now - dir[Inside(f)].mtime > sweep[s].maxAge
    /\ sweep[s].removed # {}

\* C23: a sweep of a directory that does not exist throws nothing; once its
\* mkdir is over the directory exists, and it stays; the sweep lists nothing,
\* removes nothing and returns 0.
C23_MissingDirectoryCreated ==
  /\ [](\A s \in Sweeps :
          /\ sweep[s].pc # "threw"
          /\ sweep[s].pc \in {"readdir", "done"} => dirExists
          /\ sweep[s].pc = "done" =>
                /\ sweep[s].files = <<>>
                /\ sweep[s].removed = {}
                /\ sweep[s].deletedCount = 0)
  /\ [](dir = [p \in Paths |-> NoEntry])
  /\ [][/\ dirExists => dirExists'
        /\ \A s \in Sweeps :
             (sweep[s].pc = "mkdir" /\ sweep'[s] # sweep[s]) =>
               (dirExists' /\ sweep'[s].pc = "readdir")]_vars

\* A sweep by each implementation returned 0 and the directory exists.
C23_Witness ==
  /\ dirExists
  /\ \A i \in Impls :
       \E s \in Sweeps :
         sweep[s].impl = i /\ sweep[s].pc = "done" /\ sweep[s].deletedCount = 0

\* Request r is answered in this step.
Answered(r) == req[r].pc # "done" /\ req'[r].pc = "done"

\* C24: a download request for a completed job that is answered while the
\* output file is not on disk is answered with 404, whenever the file went;
\* a process request that finds the source file missing is answered with 404.
C24_SweptFileNotFound ==
  [][\A r \in Reqs :
       (Answered(r) /\ req'[r].id \in DOMAIN audioFiles) =>
         /\ (/\ req'[r].kind = "download"
             /\ audioFiles[req'[r].id].status = "completed"
             /\ audioFiles[req'[r].id].outputPath \notin disk) =>
               req'[r].res.code = 404
         /\ (/\ req'[r].kind = "process"
             /\ req[r].pc = "access"
             /\ audioFiles[req'[r].id].filepath \notin disk) =>
               req'[r].res.code = 404]_vars

\* C25: a step that removes files from disk changes no job record: no record
\* is added or removed and no field of a record changes.
C25_SweepLeavesRegistry ==
  [][(disk' # disk /\ disk' \subseteq disk) => audioFiles' = audioFiles]_vars

\* A completed job whose source file and output file were both removed
\* after the job completed.
C25_Witness ==
  \E id \in DOMAIN audioFiles :
    /\ audioFiles[id].status = "completed"
    /\ audioFiles[id].filepath \notin disk
    /\ audioFiles[id].outputPath \in OutputPaths
    /\ audioFiles[id].outputPath \notin disk
    /\ \E r \in Reqs :
         /\ req[r].kind = "download"
         /\ req[r].id = id
         /\ req[r].pc = "done"
         /\ req[r].res.code = 200

\* C26: a download request for a job whose status is not 'completed' or whose
\* outputPath is not set is answered at once with 400 and no file; only a
\* request that found the job completed with an outputPath goes on to the
\* file, and only such a request is answered with 200 and that file.
C26_DownloadNeedsCompleted ==
  [][\A r \in Reqs :
       (req'[r].kind = "download" /\ req'[r].id \in DOMAIN audioFiles) =>
         LET job == audioFiles[req'[r].id]
         IN  /\ req[r].pc = "idle" =>
                   IF job.status = "completed" /\ job.outputPath # Absent
                   THEN req'[r].pc = "access"
                   ELSE /\ req'[r].pc = "done"
                        /\ req'[r].res =
                             Resp(400, "", Absent, <<"Audio belum selesai diproses">>)
             /\ (req'[r].pc \in {"access", "stat", "stream"} /\ req[r].pc = "idle") =>
                   job.status = "completed"
             /\ (Answered(r) /\ req'[r].res.code = 200) =>
                   /\ req[r].pc = "stream"
                   /\ job.outputPath # Absent
                   /\ req'[r].res.outputPath = job.outputPath]_vars

\* A download request for a job that is being processed was answered with
\* 400.
C26_Witness ==
  \E r \in Reqs :
    /\ req[r].kind = "download"
    /\ req[r].pc = "done"
    /\ req[r].id \in DOMAIN audioFiles
    /\ audioFiles[req[r].id].status = "processing"
    /\ req[r].res.code = 400
    /\ req[r].res.outputPath = Absent

\* C27: a job stays in the registry under its id, and no step changes the id
\* or the filepath of its record.
C27_IdAndPathFixed ==
  [][\A id \in DOMAIN audioFiles :
       /\ id \in DOMAIN audioFiles'
       /\ audioFiles'[id].id = audioFiles[id].id
       /\ audioFiles'[id].filepath = audioFiles[id].filepath]_vars

\* A job was processed and failed, its file was removed and an info request
\* answered: id and filepath are those of the upload.
C27_Witness ==
  \E id \in DOMAIN audioFiles :
    /\ audioFiles[id].status = "failed"
    /\ audioFiles[id].id = id
    /\ audioFiles[id].filepath \in UploadPaths
    /\ audioFiles[id].filepath \notin disk
    /\ \E r \in Reqs :
         /\ req[r].kind = "info"
         /\ req[r].id = id
         /\ req[r].pc = "done"
         /\ req[r].res.status = "failed"

C29_Original ==
  \A id \in DOMAIN audioFiles :
    audioFiles[id].status \in Terminal => audioFiles[id].processingTime # Absent

\* C29 amended: the step that completes a job records the processing time and
\* completedAt on its record; the step that fails a job records the error and
\* failedAt and leaves the processing time as it was, absent for a job that
\* never completed.
C29_DurationOnCompletion ==
  [][\A id \in DOMAIN audioFiles :
       /\ (audioFiles[id].status = "processing"
             /\ audioFiles'[id].status = "completed") =>
            /\ audioFiles'[id].processingTime # Absent
            /\ audioFiles'[id].completedAt # Absent
       /\ (audioFiles[id].status = "processing"
             /\ audioFiles'[id].status = "failed") =>
            /\ audioFiles'[id].processingTime = audioFiles[id].processingTime
            /\ audioFiles'[id].error # Absent
            /\ audioFiles'[id].failedAt # Absent
       /\ audioFiles'[id].processingTime # audioFiles[id].processingTime =>
            audioFiles'[id].status = "completed"]_vars

\* A failed job with error and failedAt and without a processing time, its
\* request answered.
C29_Witness ==
  \E id \in DOMAIN audioFiles :
    /\ audioFiles[id].status = "failed"
    /\ audioFiles[id].error # Absent
    /\ audioFiles[id].failedAt # Absent
    /\ audioFiles[id].processingTime = Absent
    /\ \E r \in Reqs : req[r].pc = "done" /\ req[r].res.code = 500

\* A call of start() or stop() is made in this step.
Calls(name) == sched'.log = Append(sched.log, name)

\* All of the scheduler but the list of calls.
SchedState(s) == [s EXCEPT !.log = <<>>]

\* C30: getStatus() is true exactly when an interval timer exists, and then it
\* is the one kept in this.timer; there is never more than one timer; start()
\* on a running scheduler and stop() on a stopped one change nothing, so no
\* timer and no sweep is added; start() on a stopped scheduler runs one sweep
\* and creates the timer, stop() on a running one removes it.
C30_SchedulerControl ==
  /\ [](/\ getStatus(sched) <=> sched.active # {}
        /\ Cardinality(sched.active) <= 1
        /\ sched.active = IF sched.isRunning THEN {sched.timer} ELSE {}
        /\ ~sched.isRunning => sched.timer = 0)
  /\ [][/\ (Calls("start") /\ getStatus(sched)) =>
             SchedState(sched') = SchedState(sched)
        /\ (Calls("stop") /\ ~getStatus(sched)) =>
             SchedState(sched') = SchedState(sched)
        /\ (Calls("start") /\ ~getStatus(sched)) =>
             /\ getStatus(sched')
             /\ sched'.immediate = sched.immediate + 1
             /\ sched'.handles = sched.handles + 1
        /\ (Calls("stop") /\ getStatus(sched)) =>
             /\ ~getStatus(sched')
             /\ sched'.active = {}
             /\ sched'.immediate = sched.immediate
        /\ sched'.periodic # sched.periodic => getStatus(sched)]_vars

\* start() twice, stop() twice, start() again: two sweeps were run at once,
\* two timers created of which one exists, and it fired.
C30_Witness ==
  /\ sched.log = <<"start", "start", "stop", "stop", "start">>
  /\ getStatus(sched)
  /\ sched.immediate = 2
  /\ sched.handles = 2
  /\ sched.active = {2}
  /\ sched.periodic > 0

\* A call of runCleanup is made in this step.
SweepBegins ==
  /\ Len(sched'.cleanups) = Len(sched.cleanups) + 1
  /\ sched'.cleanups[Len(sched'.cleanups)] = "uploadDir"

\* C31: start() on a stopped scheduler begins a sweep in the same step, and
\* so does every firing of the interval timer; a sweep begins only in a
\* start() on a stopped scheduler or in a firing of the timer of a running
\* one, so none begins between stop() and the next start(); a sweep that
\* began goes through uploadDir, then outputDir, then returns.
C31_SweepsWhileRunning ==
  [][/\ (Calls("start") /\ ~getStatus(sched)) => SweepBegins
     /\ sched'.periodic # sched.periodic => SweepBegins
     /\ Len(sched'.cleanups) # Len(sched.cleanups) =>
          /\ SweepBegins
          /\ \/ Calls("start") /\ ~getStatus(sched)
             \/ /\ getStatus(sched)
                /\ sched'.log = sched.log
                /\ sched'.periodic = sched.periodic + 1
     /\ \A n \in DOMAIN sched.cleanups :
          sched'.cleanups[n] # sched.cleanups[n] =>
            \/ sched.cleanups[n] = "uploadDir" /\ sched'.cleanups[n] = "outputDir"
            \/ sched.cleanups[n] = "outputDir" /\ sched'.cleanups[n] = "done"]_vars

\* start() and stop() were called: the sweep of the start and those of the
\* timer began and have all returned, and the scheduler is stopped.
C31_Witness ==
  /\ sched.log = <<"start", "stop">>
  /\ ~getStatus(sched)
  /\ sched.immediate = 1
  /\ sched.periodic = MaxRuns
  /\ Len(sched.cleanups) = 1 + MaxRuns
  /\ \A n \in DOMAIN sched.cleanups : sched.cleanups[n] = "done"

\* The MediaRecorders that record.
Recording == {i \in DOMAIN rec.recs : rec.recs[i].state = "recording"}

\* C32: every recording that still runs when its elapsed time reaches
\* maxDuration is stopped before the next second passes: no MediaRecorder is
\* recording more than maxDuration seconds after it was started, and once the
\* time of the present recording is up isRecording() is false.
C32_StoppedAtMaxDuration ==
  /\ \A i \in Recording : rec.now - rec.recs[i].started <= maxDuration
  /\ isRecording(rec) => rec.now - rec.startTime <= maxDuration

\* The recordings before recording i were all stopped when it was started,
\* and it records a stream of its own, granted after they were stopped.
StartedAlone(i) ==
  \A j \in 1..(i - 1) :
    /\ rec.recs[j].state = "inactive"
    /\ rec.recs[j].stopped <= rec.recs[i].started
    /\ rec.recs[j].stream # rec.recs[i].stream

\* C35: a recording is stopped by a timer only when it has run for
\* maxDuration: the timeout armed by an earlier recording that was already
\* stopped never stops a later recording before that.
C35_AutoStopOnlyWhenDue ==
  \A i \in DOMAIN rec.recs :
    rec.recs[i].by \in {"interval", "timeout"} /\ StartedAlone(i)
      => rec.recs[i].stopped - rec.recs[i].started >= maxDuration

\* C33: a request is retried only after an attempt that ended in a network
\* error (fetch failed), and at most maxRetries times; an attempt answered by
\* an HTTP error response is the last one.
C33_RetryOnlyNetworkErrors ==
  /\ Len(call.outcomes) <= maxRetries + 1
  /\ \A k \in DOMAIN call.outcomes :
       (k < Len(call.outcomes) \/ call.pc = "delay")
         => call.outcomes[k].type = "failed"

\* C34: the source file of a job whose status is 'processing' is on disk: no
\* sweep deletes it between the existence check of the process request and
\* the exit of the worker.
C34_ProcessingSourceKept ==
  \A i \in DOMAIN audioFiles :
    audioFiles[i].status = "processing" => audioFiles[i].filepath \in disk

\* C36: any two distinct jobs of the registry have distinct source paths.
C36_DistinctSourcePaths ==
  \A i, j \in DOMAIN audioFiles :
    i # j => audioFiles[i].filepath # audioFiles[j].filepath

\* The test of cleanupOldFiles on the entry e: fileAge > maxAge, with the
\* time read after readdir.
fileAgeExceeds(w, e) == w.now - e.mtime > w.maxAge

\* Sweep s is about to test the age of a regular file.
AtAgeTest(s) ==
  /\ sweep[s].pc \in {"stat", "age"}
  /\ isFile(dir[current(sweep[s])])

\* Deleting the entry e changes the count in the same way in both
\* implementations.
SameCount(w, e) ==
  countAfter([w EXCEPT !.impl = "FileManager"], e)
    = countAfter([w EXCEPT !.impl = "CleanupScheduler"], e)

\* After the age test both implementations do the same with the entry and
\* the count, and the count returned is the number of files deleted.
SameDeletion(s) ==
  /\ sweep[s].pc = "unlink" => SameCount(sweep[s], dir[current(sweep[s])])
  /\ sweep[s].pc = "done" => sweep[s].deletedCount = Cardinality(sweep[s].removed)

C38_OneProcessRequest ==
  /\ page.processing <= 1
  /\ [][page'.sent # page.sent => page.processing = 0]_vars

\* A process request is in flight after a mode switch has reset isProcessing
\* and a later upload has set currentAudioId: only the disabled button stands
\* between a click and a second request.
C38_Witness ==
  /\ page.processing = 1
  /\ ~page.isProcessing
  /\ page.currentAudioId # 0
  /\ page.disabled

====
